---- MODULE Spec2Model ----
(***************************************************************************)
(* A model of the primitives of nion.utils:                                *)
(*   Event.py             Event / EventListener                            *)
(*   ReferenceCounting.py ReferenceCounted                                 *)
(*   ThreadPool.py        SingleItemDispatcher, ThreadPoolTask,            *)
(*                        ThreadPool, ThreadDispatcher                     *)
(*   PublishSubscribe.py  Publisher, Subscription                          *)
(*   Stream.py            ValueStream, MapStream, CombineLatestStream,     *)
(*                        OptionalStream, DebounceStream, SampleStream,    *)
(*                        ConcatStream, StreamTask, ValueChangeStream      *)
(* Each primitive has its own next-state relation and specification; the   *)
(* variables of the other primitives stay at their initial values.         *)
(***************************************************************************)
EXTENDS Integers, Sequences, FiniteSets, TLC

\* ------------------------------------------------------------------ bounds
\* Number of listeners ever registered on the event.
MaxListeners == 2
\* Number of add_ref / remove_ref calls in one run of the reference counter.
MaxRefOps == 6
\* Number of dispatch calls made on the dispatcher.
MaxDispatch == 4
\* Number of ThreadPoolTask objects.
MaxPoolTasks == 2
\* Number of threads calling execute and cancel.
MaxWorkers == 2
\* Number of owners outside the graph that each stream node can have at a time.
MaxOwners == 1
\* The last instant of the clock of the timed streams.
MaxTime == 4
\* Number of updates of the upstream of a timed stream.
MaxUpdates == 3
\* Number of downstream streams the factory of a ConcatStream makes.
MaxDownstreams == 3
\* Number of begin, end and change operations on a ValueChangeStream.
MaxChangeOps == 5
\* Number of worker threads of the ThreadPool.
MaxPoolThreads == 2
\* Number of queue_fn calls made on the ThreadPool.
MaxQueued == 3
\* Number of invocations of the target of a ThreadDispatcher.
MaxStarts == 3
\* Number of subscribex calls made on the Publisher.
MaxSubscriptions == 3
\* Number of notifications the Publisher sends.
MaxNotifications == 2
\* upstream notify_next_value calls on a select/cache pipeline
MaxPublishes == 3
\* subscribex calls on the derived publishers of a pipeline
MaxJoins == 3
\* threads that increment a key of a ThreadSafeDict
MaxDictThreads == 2
\* increments each of them performs
MaxIncrements == 2
\* plain reads of the key by another thread
MaxReads == 2
\* operator nodes built one after the other, references to a node, and
\* handler calls
MaxNodes == 2

\* ----------------------------------------------------------------- helpers
Range(s) == {s[i] : i \in 1..Len(s)}

\* list.remove(x): drops the first occurrence of x.
RECURSIVE RemoveFirst(_, _)
RemoveFirst(s, x) ==
    IF s = <<>> THEN <<>>
    ELSE IF Head(s) = x THEN Tail(s)
    ELSE <<Head(s)>> \o RemoveFirst(Tail(s), x)

\* ======================================================================
\* Event.py
\* ======================================================================
VARIABLES
    weak_listeners,  \* Event.__weak_listeners: listener ids in the order added
    alive,           \* alive[l]: the EventListener object l exists (its weakref is live)
    tokenHeld,       \* tokenHeld[l]: the caller still references the token listen returned
    owned,           \* owned[l]: Event.__listeners holds l on behalf of a live owner
    closed,          \* closed[l]: EventListener.close ran (call is the no-op)
    lfn,             \* lfn[l]: what the callback does: "true", "false" (its result) or "raise"
    nextId,          \* the next listener to be created
    fpc,             \* the firing thread: "idle", "iter" (in the loop), "call", "done"
    fmode,           \* "fire", "any" (fire_any) or "all" (fire_all)
    snap,            \* the local list `listeners` of the running fire (0 stands for None)
    fidx,            \* position of the loop in snap
    fcall,           \* the attribute listener.call as loaded for the current entry
    fresult,         \* what the last fire returned: "None", "True" or "False"
    fraised,         \* the listener whose exception the last fire caught, or 0
    called,          \* callbacks invoked by the current or last fire, in order
    voided,          \* listeners whose call was found to be the no-op at their turn
    hsnap,           \* the snapshot as taken by the current or last fire
    hclosed          \* the listeners that were closed when that snapshot was taken

evars == <<weak_listeners, alive, tokenHeld, owned, closed, lfn, nextId, fpc, fmode,
           snap, fidx, fcall, fresult, fraised, called, voided, hsnap, hclosed>>

Listeners == 1..MaxListeners
Behaviours == {"true", "false", "raise"}
Modes == {"fire", "any", "all"}

EventInit ==
    /\ weak_listeners = <<>>
    /\ alive = [l \in Listeners |-> FALSE]
    /\ tokenHeld = [l \in Listeners |-> FALSE]
    /\ owned = [l \in Listeners |-> FALSE]
    /\ closed = [l \in Listeners |-> FALSE]
    /\ lfn = [l \in Listeners |-> "true"]
    /\ nextId = 1
    /\ fpc = "idle"
    /\ fmode = "fire"
    /\ snap = <<>>
    /\ fidx = 1
    /\ fcall = "void"
    /\ fresult = "None"
    /\ fraised = 0
    /\ called = <<>>
    /\ voided = {}
    /\ hsnap = <<>>
    /\ hclosed = {}

\* Event.listener_count
listener_count == Len(weak_listeners)

\* A listener object lives while something references it strongly: the caller's
\* token, the owner table, or the snapshot of a fire in progress.
Referenced(l, th, ow, sn) == th[l] \/ ow[l] \/ l \in Range(sn)

\* The objects left after references were given up; the weakref of a freed
\* object reads None from then on.
Survivors(th, ow, sn) == [l \in Listeners |-> alive[l] /\ Referenced(l, th, ow, sn)]

\* Event.listen(listener_fn, owner=...)
Listen(fn, withOwner) ==
    /\ nextId <= MaxListeners
    /\ weak_listeners' = Append(weak_listeners, nextId)
    /\ alive' = [alive EXCEPT ![nextId] = TRUE]
    /\ tokenHeld' = [tokenHeld EXCEPT ![nextId] = TRUE]
    /\ owned' = [owned EXCEPT ![nextId] = withOwner]
    /\ lfn' = [lfn EXCEPT ![nextId] = fn]
    /\ nextId' = nextId + 1
    /\ UNCHANGED <<closed, fpc, fmode, snap, fidx, fcall, fresult, fraised, called,
                   voided, hsnap, hclosed>>

\* EventListener.close, called by the holder of the token: call becomes the no-op.
CloseToken(l) ==
    /\ tokenHeld[l]
    /\ closed' = [closed EXCEPT ![l] = TRUE]
    /\ UNCHANGED <<weak_listeners, alive, tokenHeld, owned, lfn, nextId, fpc, fmode, snap,
                   fidx, fcall, fresult, fraised, called, voided, hsnap, hclosed>>

\* The caller gives up its reference to the token.
DropToken(l) ==
    /\ tokenHeld[l]
    /\ tokenHeld' = [tokenHeld EXCEPT ![l] = FALSE]
    /\ alive' = Survivors(tokenHeld', owned, snap)
    /\ UNCHANGED <<weak_listeners, owned, closed, lfn, nextId, fpc, fmode, snap,
                   fidx, fcall, fresult, fraised, called, voided, hsnap, hclosed>>

\* owner_gone: the owner died; its listener is closed and the table entry deleted.
OwnerGone(l) ==
    /\ owned[l]
    /\ closed' = [closed EXCEPT ![l] = TRUE]
    /\ owned' = [owned EXCEPT ![l] = FALSE]
    /\ alive' = Survivors(tokenHeld, owned', snap)
    /\ UNCHANGED <<weak_listeners, tokenHeld, lfn, nextId, fpc, fmode, snap,
                   fidx, fcall, fresult, fraised, called, voided, hsnap, hclosed>>

\* remove_listener: the weakref callback of a freed listener, under the mutex.
RemoveListener(l) ==
    /\ ~alive[l]
    /\ l \in Range(weak_listeners)
    /\ weak_listeners' = RemoveFirst(weak_listeners, l)
    /\ UNCHANGED <<alive, tokenHeld, owned, closed, lfn, nextId, fpc, fmode, snap,
                   fidx, fcall, fresult, fraised, called, voided, hsnap, hclosed>>

\* The first statement of fire / fire_any / fire_all: the snapshot under the mutex.
FireSnapshot(mode) ==
    /\ fpc \in {"idle", "done"}
    /\ fmode' = mode
    /\ snap' = [i \in 1..Len(weak_listeners) |->
                  IF alive[weak_listeners[i]] THEN weak_listeners[i] ELSE 0]
    /\ hsnap' = snap'
    /\ hclosed' = {l \in Listeners : closed[l]}
    /\ fidx' = 1
    /\ fpc' = "iter"
    /\ fresult' = "None"
    /\ fraised' = 0
    /\ called' = <<>>
    /\ voided' = {}
    /\ UNCHANGED <<weak_listeners, alive, tokenHeld, owned, closed, lfn, nextId, fcall>>

\* The fire leaves its function: the result is set and the snapshot released.
Finish(res, raiser) ==
    /\ fpc' = "done"
    /\ fresult' = res
    /\ fraised' = raiser
    /\ snap' = <<>>
    /\ fidx' = 1
    /\ fcall' = "void"
    /\ alive' = Survivors(tokenHeld, owned, snap')
    /\ UNCHANGED <<weak_listeners, tokenHeld, owned, closed, lfn, nextId, fmode,
                   hsnap, hclosed>>

\* Fault variant of FireLoad: close leaves listener.call as it was.
FireLoadIgnoresClose ==
    /\ fpc = "iter"
    /\ fidx <= Len(snap)
    /\ IF snap[fidx] = 0
       THEN /\ fidx' = fidx + 1
            /\ UNCHANGED <<fpc, fcall>>
       ELSE /\ fcall' = "fn"
            /\ fpc' = "call"
            /\ UNCHANGED fidx
    /\ UNCHANGED <<weak_listeners, alive, tokenHeld, owned, closed, lfn, nextId, fmode,
                   snap, fresult, fraised, called, voided, hsnap, hclosed>>

\* `for listener in listeners: if listener:` and the load of listener.call,
\* which close has replaced by the no-op.
FireLoad ==
    /\ fpc = "iter"
    /\ fidx <= Len(snap)
    /\ IF snap[fidx] = 0
       THEN /\ fidx' = fidx + 1
            /\ UNCHANGED <<fpc, fcall>>
       ELSE /\ fcall' = IF closed[snap[fidx]] THEN "void" ELSE "fn"
            /\ fpc' = "call"
            /\ UNCHANGED fidx
    /\ UNCHANGED <<weak_listeners, alive, tokenHeld, owned, closed, lfn, nextId, fmode,
                   snap, fresult, fraised, called, voided, hsnap, hclosed>>

\* The loop goes on to the next entry.
Continue ==
    /\ fpc' = "iter"
    /\ fidx' = fidx + 1
    /\ fcall' = "void"
    /\ UNCHANGED <<weak_listeners, alive, tokenHeld, owned, closed, lfn, nextId, fmode,
                   snap, fresult, fraised, hsnap, hclosed>>

\* The call of the no-op installed by close: it returns None.
FireCallVoid ==
    /\ fpc = "call"
    /\ fcall = "void"
    /\ voided' = voided \cup {snap[fidx]}
    /\ called' = called
    /\ IF fmode = "all" THEN Finish("False", 0) ELSE Continue

\* The call of the callback: it returns a value or raises.  An exception leaves
\* the loop for the except clause, which logs it; the function then returns None.
FireCallFn ==
    /\ fpc = "call"
    /\ fcall = "fn"
    /\ called' = Append(called, snap[fidx])
    /\ voided' = voided
    /\ CASE lfn[snap[fidx]] = "raise" -> Finish("None", snap[fidx])
         [] lfn[snap[fidx]] = "true" /\ fmode = "any" -> Finish("True", 0)
         [] lfn[snap[fidx]] = "false" /\ fmode = "all" -> Finish("False", 0)
         [] OTHER -> Continue

\* The loop is exhausted.
FireExhaust ==
    /\ fpc = "iter"
    /\ fidx > Len(snap)
    /\ UNCHANGED <<called, voided>>
    /\ Finish(CASE fmode = "fire" -> "None" [] fmode = "any" -> "False" [] OTHER -> "True", 0)

\* ======================================================================
\* ReferenceCounting.py
\* ======================================================================
VARIABLES
    ref_count,     \* ReferenceCounted.__ref_count
    active,        \* ReferenceCounted.__active
    finalized,     \* how many times about_to_delete ran
    refOps,        \* add_ref / remove_ref calls made so far
    finalizeOp,    \* the call (1..refOps) in which about_to_delete ran last, or 0
    firstZeroOp,   \* the first remove_ref(check=True) that brought the count to zero, or 0
    asserts,       \* remove_ref calls that failed their assertion
    unchecked      \* some remove_ref was called with check=False

rvars == <<ref_count, active, finalized, refOps, finalizeOp, firstZeroOp, asserts, unchecked>>

RefInit ==
    /\ ref_count = 0
    /\ active = TRUE
    /\ finalized = 0
    /\ refOps = 0
    /\ finalizeOp = 0
    /\ firstZeroOp = 0
    /\ asserts = 0
    /\ unchecked = FALSE

\* add_ref, under the mutex.
AddRef ==
    /\ refOps < MaxRefOps
    /\ ref_count' = ref_count + 1
    /\ refOps' = refOps + 1
    /\ UNCHANGED <<active, finalized, finalizeOp, firstZeroOp, asserts, unchecked>>

\* Fault variant of RemoveRefAtZero: the count is decremented without the assertion.
RemoveRefAtZeroDecrements(check) ==
    /\ refOps < MaxRefOps
    /\ ref_count = 0
    /\ ref_count' = ref_count - 1
    /\ refOps' = refOps + 1
    /\ unchecked' = (unchecked \/ ~check)
    /\ UNCHANGED <<active, finalized, finalizeOp, firstZeroOp, asserts>>

\* Fault variant of RemoveRefAtZero: the call fails but runs about_to_delete first.
RemoveRefAtZeroFinalizes(check) ==
    /\ refOps < MaxRefOps
    /\ ref_count = 0
    /\ asserts' = asserts + 1
    /\ refOps' = refOps + 1
    /\ unchecked' = (unchecked \/ ~check)
    /\ finalized' = finalized + 1
    /\ finalizeOp' = finalizeOp
    /\ UNCHANGED <<ref_count, active, firstZeroOp>>

\* remove_ref(check) on a count of zero: the assertion fails, nothing changes.
RemoveRefAtZero(check) ==
    /\ refOps < MaxRefOps
    /\ ref_count = 0
    /\ asserts' = asserts + 1
    /\ refOps' = refOps + 1
    /\ unchecked' = (unchecked \/ ~check)
    /\ UNCHANGED <<ref_count, active, finalized, finalizeOp, firstZeroOp>>

\* Fault variant of RemoveRef: __active is not consulted.
RemoveRefIgnoresActive(check) ==
    /\ refOps < MaxRefOps
    /\ ref_count > 0
    /\ ref_count' = ref_count - 1
    /\ refOps' = refOps + 1
    /\ unchecked' = (unchecked \/ ~check)
    /\ firstZeroOp' = IF firstZeroOp = 0 /\ ref_count' = 0 /\ check
                      THEN refOps' ELSE firstZeroOp
    /\ IF ref_count' = 0 /\ check
       THEN /\ active' = FALSE
            /\ finalized' = finalized + 1
            /\ finalizeOp' = refOps'
       ELSE UNCHANGED <<active, finalized, finalizeOp>>
    /\ UNCHANGED asserts

\* remove_ref(check) on a positive count, under the mutex.
RemoveRef(check) ==
    /\ refOps < MaxRefOps
    /\ ref_count > 0
    /\ ref_count' = ref_count - 1
    /\ refOps' = refOps + 1
    /\ unchecked' = (unchecked \/ ~check)
    /\ firstZeroOp' = IF firstZeroOp = 0 /\ ref_count' = 0 /\ check
                      THEN refOps' ELSE firstZeroOp
    /\ IF active /\ ref_count' = 0 /\ check
       THEN /\ active' = FALSE
            /\ finalized' = finalized + 1
            /\ finalizeOp' = refOps'
       ELSE UNCHANGED <<active, finalized, finalizeOp>>
    /\ UNCHANGED asserts

\* ======================================================================
\* ThreadPool.py: SingleItemDispatcher
\* ======================================================================
VARIABLES
    is_dispatch_pending,  \* DispatcherInfo.is_dispatch_pending
    dispatch_future,      \* DispatcherInfo.dispatch_future: a task, or 0 for None
    cancel,               \* DispatcherInfo.dispatch_thread_cancel is set
    tpc,                  \* tpc[t]: where dispatch_task t is: "none" (not submitted),
                          \* "wait", "ready", "run" (inside fn), "fin" (finally), "ended"
    texit,                \* texit[t]: how t left its try block: "normal", "return", "raise"
    nextTask,             \* the next task to be submitted
    dispatches,           \* dispatch calls made so far
    disposed,             \* the finalizer of the dispatcher: "live", "waiting", "done"
    finFuture,            \* the finalizer's local recompute_future
    finSawRun,            \* the finalizer began while fn was executing
    closedInFlight,       \* close() was called, and returned, while a task was in flight
    pRuns,                \* executions of fn started since the last submit
    pDuring,              \* dispatch calls that arrived during the first of them
    pOther,               \* a dispatch call arrived at another time since the last submit
    tfn,                  \* tfn[t]: the argument fn of dispatch_task t, functions being
                          \* numbered by the dispatch call that passed them (0: none)
    executed_fns,         \* the functions that have been invoked
    idle_calls            \* the dispatch calls that found dispatch_future None

dvars == <<is_dispatch_pending, dispatch_future, cancel, tpc, texit, nextTask, dispatches,
           disposed, finFuture, finSawRun, closedInFlight, pRuns, pDuring, pOther,
           tfn, executed_fns, idle_calls>>

Tasks == 1..MaxDispatch
InFlight == {"wait", "ready", "run", "fin"}
TasksInFlight == {t \in Tasks : tpc[t] \in InFlight}

DispInit ==
    /\ is_dispatch_pending = FALSE
    /\ dispatch_future = 0
    /\ cancel = FALSE
    /\ tpc = [t \in Tasks |-> "none"]
    /\ texit = [t \in Tasks |-> "normal"]
    /\ nextTask = 1
    /\ dispatches = 0
    /\ disposed = "live"
    /\ finFuture = 0
    /\ finSawRun = FALSE
    /\ closedInFlight = FALSE
    /\ pRuns = 0
    /\ pDuring = 0
    /\ pOther = FALSE
    /\ tfn = [t \in Tasks |-> 0]
    /\ executed_fns = {}
    /\ idle_calls = {}

\* executor.submit(dispatch_task, ...) and the assignment of dispatch_future.
Submit ==
    /\ dispatch_future' = nextTask
    /\ tpc' = [tpc EXCEPT ![nextTask] = "wait"]
    /\ nextTask' = nextTask + 1
    /\ pRuns' = 0
    /\ pDuring' = 0
    /\ pOther' = FALSE
    /\ tfn' = [tfn EXCEPT ![nextTask] = dispatches + 1]

\* A dispatch call that submits nothing.
NoSubmit ==
    /\ pDuring' = IF pRuns = 1 /\ \E t \in Tasks : tpc[t] = "run"
                  THEN pDuring + 1 ELSE pDuring
    /\ pOther' = (pOther \/ ~(pRuns = 1 /\ \E t \in Tasks : tpc[t] = "run"))
    /\ UNCHANGED <<dispatch_future, tpc, nextTask, pRuns, tfn>>

\* Fault variant of Dispatch: dispatch_future is not consulted.
DispatchAlwaysSubmits ==
    /\ disposed = "live"
    /\ dispatches < MaxDispatch
    /\ dispatches' = dispatches + 1
    /\ is_dispatch_pending' = TRUE
    /\ Submit
    /\ UNCHANGED <<cancel, texit, disposed, finFuture, finSawRun, closedInFlight>>
    /\ idle_calls' = IF dispatch_future = 0 THEN idle_calls \cup {dispatches + 1}
                     ELSE idle_calls
    /\ UNCHANGED executed_fns

\* dispatch(fn), under is_dispatching_lock.
Dispatch ==
    /\ disposed = "live"
    /\ dispatches < MaxDispatch
    /\ dispatches' = dispatches + 1
    /\ is_dispatch_pending' = TRUE
    /\ IF dispatch_future = 0 THEN Submit ELSE NoSubmit
    /\ UNCHANGED <<cancel, texit, disposed, finFuture, finSawRun, closedInFlight>>
    /\ idle_calls' = IF dispatch_future = 0 THEN idle_calls \cup {dispatches + 1}
                     ELSE idle_calls
    /\ UNCHANGED executed_fns

\* close(): `pass`.  It returns at once and touches nothing of the dispatcher.
Close ==
    /\ disposed = "live"
    /\ closedInFlight' = (closedInFlight \/ TasksInFlight # {})
    /\ UNCHANGED <<is_dispatch_pending, dispatch_future, cancel, tpc, texit, nextTask,
                   dispatches, disposed, finFuture, finSawRun, pRuns, pDuring, pOther>>
    /\ UNCHANGED <<tfn, executed_fns, idle_calls>>

\* dispatch_task: the cancellable waits (the 0.05 s wait and the wait for the
\* minimum period) end, cancelled (`return`) or timed out.
TaskWait(t) ==
    /\ tpc[t] = "wait"
    /\ IF cancel
       THEN /\ tpc' = [tpc EXCEPT ![t] = "fin"]
            /\ texit' = [texit EXCEPT ![t] = "return"]
       ELSE /\ tpc' = [tpc EXCEPT ![t] = "ready"]
            /\ UNCHANGED texit
    /\ UNCHANGED <<is_dispatch_pending, dispatch_future, cancel, nextTask, dispatches,
                   disposed, finFuture, finSawRun, closedInFlight, pRuns, pDuring, pOther>>
    /\ UNCHANGED <<tfn, executed_fns, idle_calls>>

LatestFunction(t) == dispatches

\* dispatch_task: the function it calls is its argument fn, bound by the
\* dispatch call that submitted the task.
TaskFunction(t) == tfn[t]

\* dispatch_task: is_dispatch_pending = False, then fn() is entered.
TaskStart(t) ==
    /\ tpc[t] = "ready"
    /\ is_dispatch_pending' = FALSE
    /\ tpc' = [tpc EXCEPT ![t] = "run"]
    /\ pRuns' = pRuns + 1
    /\ UNCHANGED <<dispatch_future, cancel, texit, nextTask, dispatches, disposed,
                   finFuture, finSawRun, closedInFlight, pDuring, pOther>>
    /\ executed_fns' = executed_fns \cup {TaskFunction(t)}
    /\ UNCHANGED <<tfn, idle_calls>>

\* fn() returns (cached_value_time is then set) or raises; either way the
\* finally clause is next.
TaskFnEnds(t, how) ==
    /\ tpc[t] = "run"
    /\ tpc' = [tpc EXCEPT ![t] = "fin"]
    /\ texit' = [texit EXCEPT ![t] = how]
    /\ UNCHANGED <<is_dispatch_pending, dispatch_future, cancel, nextTask, dispatches,
                   disposed, finFuture, finSawRun, closedInFlight, pRuns, pDuring, pOther>>
    /\ UNCHANGED <<tfn, executed_fns, idle_calls>>

\* dispatch_task: the finally clause, under is_dispatching_lock.  With nothing
\* pending it clears dispatch_future and breaks out of the loop, which discards a
\* pending return or exception.  Otherwise the loop goes round after a normal
\* run, and a pending return or exception leaves the function.
TaskFinally(t) ==
    /\ tpc[t] = "fin"
    /\ IF ~is_dispatch_pending
       THEN /\ dispatch_future' = 0
            /\ tpc' = [tpc EXCEPT ![t] = "ended"]
       ELSE /\ tpc' = [tpc EXCEPT ![t] = IF texit[t] = "normal" THEN "wait" ELSE "ended"]
            /\ UNCHANGED dispatch_future
    /\ UNCHANGED <<is_dispatch_pending, cancel, texit, nextTask, dispatches, disposed,
                   finFuture, finSawRun, closedInFlight, pRuns, pDuring, pOther>>
    /\ UNCHANGED <<tfn, executed_fns, idle_calls>>

\* finalize, run when the dispatcher object is collected: nothing can call
\* dispatch or close any more.
FinalizeBegin ==
    /\ disposed = "live"
    /\ finFuture' = dispatch_future
    /\ finSawRun' = (dispatch_future # 0 /\ tpc[dispatch_future] = "run")
    /\ IF dispatch_future # 0
       THEN /\ cancel' = TRUE
            /\ disposed' = "waiting"
       ELSE /\ disposed' = "done"
            /\ UNCHANGED cancel
    /\ UNCHANGED <<is_dispatch_pending, dispatch_future, tpc, texit, nextTask, dispatches,
                   closedInFlight, pRuns, pDuring, pOther>>
    /\ UNCHANGED <<tfn, executed_fns, idle_calls>>

\* Fault variant of FinalizeWait: the finalizer does not wait for the future.
FinalizeReturnsAtOnce ==
    /\ disposed = "waiting"
    /\ disposed' = "done"
    /\ UNCHANGED <<is_dispatch_pending, dispatch_future, cancel, tpc, texit, nextTask,
                   dispatches, finFuture, finSawRun, closedInFlight, pRuns, pDuring, pOther>>
    /\ UNCHANGED <<tfn, executed_fns, idle_calls>>

\* finalize: concurrent.futures.wait([recompute_future]) returns.
FinalizeWait ==
    /\ disposed = "waiting"
    /\ tpc[finFuture] = "ended"
    /\ disposed' = "done"
    /\ UNCHANGED <<is_dispatch_pending, dispatch_future, cancel, tpc, texit, nextTask,
                   dispatches, finFuture, finSawRun, closedInFlight, pRuns, pDuring, pOther>>
    /\ UNCHANGED <<tfn, executed_fns, idle_calls>>

\* ======================================================================
\* ThreadPool.py: ThreadPoolTask
\* ======================================================================
VARIABLES
    task_fn,         \* task_fn[t]: ThreadPoolTask.__fn is set (not None)
    task_lock,       \* task_lock[t]: the thread that owns ThreadPoolTask.__lock, or 0
    wpc,             \* wpc[w]: where thread w is in its call: "idle", "execute" or
                     \* "cancel" (at `with self.__lock`), "fn" (inside self.__fn()),
                     \* "finished" / "cfinished" (inside self.__finished_fn(self),
                     \* called by execute / by cancel)
    wtask,           \* wtask[w]: the task of that call, or 0
    ipc,             \* ipc[w]: a cancel called by the user code w is executing:
                     \* "none", "cancel" (at `with self.__lock`), "cfinished"
    itask,           \* itask[w]: the task of that nested call, or 0
    fn_runs,         \* fn_runs[t]: how many times the task function was entered
    finished_calls,  \* finished_calls[t]: how many times finished_fn was called
    fn_exit,         \* fn_exit[t]: how the task function ended: "none", "normal", "raise"
    cancel_during    \* cancel_during[w]: the task of the last cancel call of thread w
                     \* if another thread was inside the task function when the call
                     \* was made, else 0

tvars == <<task_fn, task_lock, wpc, wtask, ipc, itask, fn_runs, finished_calls, fn_exit,
           cancel_during>>

PoolTasks == 1..MaxPoolTasks
Workers == 1..MaxWorkers

\* The positions at which a thread executes code supplied by the user.
UserCode == {"fn", "finished", "cfinished"}

TaskInit ==
    /\ task_fn = [t \in PoolTasks |-> TRUE]
    /\ task_lock = [t \in PoolTasks |-> 0]
    /\ wpc = [w \in Workers |-> "idle"]
    /\ wtask = [w \in Workers |-> 0]
    /\ ipc = [w \in Workers |-> "none"]
    /\ itask = [w \in Workers |-> 0]
    /\ fn_runs = [t \in PoolTasks |-> 0]
    /\ finished_calls = [t \in PoolTasks |-> 0]
    /\ fn_exit = [t \in PoolTasks |-> "none"]
    /\ cancel_during = [w \in Workers |-> 0]

\* A thread calls task.execute() or task.cancel() and arrives at `with self.__lock`.
TaskCall(w, t, what) ==
    /\ wpc[w] = "idle"
    /\ wpc' = [wpc EXCEPT ![w] = what]
    /\ wtask' = [wtask EXCEPT ![w] = t]
    /\ cancel_during' = [cancel_during EXCEPT ![w] =
                             IF what = "cancel" /\ \E u \in Workers \ {w} : wtask[u] = t /\ wpc[u] = "fn"
                             THEN t ELSE 0]
    /\ UNCHANGED <<task_fn, task_lock, ipc, itask, fn_runs, finished_calls, fn_exit>>

\* execute: the lock is acquired; `if self.__fn:` and the call of self.__fn(),
\* made with the lock held.
ExecuteLocked(w) ==
    /\ wpc[w] = "execute"
    /\ task_lock[wtask[w]] = 0
    /\ IF task_fn[wtask[w]]
       THEN /\ task_lock' = [task_lock EXCEPT ![wtask[w]] = w]
            /\ wpc' = [wpc EXCEPT ![w] = "fn"]
            /\ fn_runs' = [fn_runs EXCEPT ![wtask[w]] = @ + 1]
            /\ UNCHANGED wtask
       ELSE /\ wpc' = [wpc EXCEPT ![w] = "idle"]
            /\ wtask' = [wtask EXCEPT ![w] = 0]
            /\ UNCHANGED <<task_lock, fn_runs>>
    /\ UNCHANGED <<task_fn, ipc, itask, finished_calls, fn_exit>>
    /\ UNCHANGED cancel_during

\* execute: self.__fn() returns or raises (the exception is caught and logged);
\* then `self.__fn = None` and the call of self.__finished_fn(self), lock held.
ExecuteFnEnds(w, how) ==
    /\ wpc[w] = "fn"
    /\ ipc[w] = "none"
    /\ fn_exit' = [fn_exit EXCEPT ![wtask[w]] = how]
    /\ task_fn' = [task_fn EXCEPT ![wtask[w]] = FALSE]
    /\ finished_calls' = [finished_calls EXCEPT ![wtask[w]] = @ + 1]
    /\ wpc' = [wpc EXCEPT ![w] = "finished"]
    /\ UNCHANGED <<task_lock, wtask, ipc, itask, fn_runs>>
    /\ UNCHANGED cancel_during

\* Fault variant: cancel does not wait for the lock.
CancelWithoutLock(w) ==
    /\ wpc[w] = "cancel"
    /\ IF task_fn[wtask[w]]
       THEN /\ task_lock' = [task_lock EXCEPT ![wtask[w]] = w]
            /\ task_fn' = [task_fn EXCEPT ![wtask[w]] = FALSE]
            /\ finished_calls' = [finished_calls EXCEPT ![wtask[w]] = @ + 1]
            /\ wpc' = [wpc EXCEPT ![w] = "cfinished"]
            /\ UNCHANGED wtask
       ELSE /\ wpc' = [wpc EXCEPT ![w] = "idle"]
            /\ wtask' = [wtask EXCEPT ![w] = 0]
            /\ UNCHANGED <<task_lock, task_fn, finished_calls>>
    /\ UNCHANGED <<ipc, itask, fn_runs, fn_exit>>
    /\ UNCHANGED cancel_during

\* cancel: the lock is acquired; `if self.__fn:`, `self.__fn = None` and the
\* call of self.__finished_fn(self), made with the lock held.
CancelLocked(w) ==
    /\ wpc[w] = "cancel"
    /\ task_lock[wtask[w]] = 0
    /\ IF task_fn[wtask[w]]
       THEN /\ task_lock' = [task_lock EXCEPT ![wtask[w]] = w]
            /\ task_fn' = [task_fn EXCEPT ![wtask[w]] = FALSE]
            /\ finished_calls' = [finished_calls EXCEPT ![wtask[w]] = @ + 1]
            /\ wpc' = [wpc EXCEPT ![w] = "cfinished"]
            /\ UNCHANGED wtask
       ELSE /\ wpc' = [wpc EXCEPT ![w] = "idle"]
            /\ wtask' = [wtask EXCEPT ![w] = 0]
            /\ UNCHANGED <<task_lock, task_fn, finished_calls>>
    /\ UNCHANGED <<ipc, itask, fn_runs, fn_exit>>
    /\ UNCHANGED cancel_during

\* self.__finished_fn(self) returns; execute or cancel leaves its `with` block.
FinishedFnReturns(w) ==
    /\ wpc[w] \in {"finished", "cfinished"}
    /\ ipc[w] = "none"
    /\ task_lock' = [task_lock EXCEPT ![wtask[w]] = 0]
    /\ wpc' = [wpc EXCEPT ![w] = "idle"]
    /\ wtask' = [wtask EXCEPT ![w] = 0]
    /\ UNCHANGED <<task_fn, ipc, itask, fn_runs, finished_calls, fn_exit>>
    /\ UNCHANGED cancel_during

\* The user code that thread w is executing calls u.cancel().
NestedCancel(w, u) ==
    /\ wpc[w] \in UserCode
    /\ ipc[w] = "none"
    /\ ipc' = [ipc EXCEPT ![w] = "cancel"]
    /\ itask' = [itask EXCEPT ![w] = u]
    /\ UNCHANGED <<task_fn, task_lock, wpc, wtask, fn_runs, finished_calls, fn_exit>>
    /\ UNCHANGED cancel_during

\* The nested cancel acquires the lock, which is re-entrant: it is free or
\* already owned by this thread.
NestedCancelLocked(w) ==
    /\ ipc[w] = "cancel"
    /\ task_lock[itask[w]] \in {0, w}
    /\ IF task_fn[itask[w]]
       THEN /\ task_lock' = [task_lock EXCEPT ![itask[w]] = w]
            /\ task_fn' = [task_fn EXCEPT ![itask[w]] = FALSE]
            /\ finished_calls' = [finished_calls EXCEPT ![itask[w]] = @ + 1]
            /\ ipc' = [ipc EXCEPT ![w] = "cfinished"]
            /\ UNCHANGED itask
       ELSE /\ ipc' = [ipc EXCEPT ![w] = "none"]
            /\ itask' = [itask EXCEPT ![w] = 0]
            /\ UNCHANGED <<task_lock, task_fn, finished_calls>>
    /\ UNCHANGED <<wpc, wtask, fn_runs, fn_exit>>
    /\ UNCHANGED cancel_during

\* The finished_fn called by the nested cancel returns; the lock is released
\* unless the outer call of this thread holds it too.
NestedFinishedFnReturns(w) ==
    /\ ipc[w] = "cfinished"
    /\ task_lock' = [task_lock EXCEPT ![itask[w]] = IF itask[w] = wtask[w] THEN w ELSE 0]
    /\ ipc' = [ipc EXCEPT ![w] = "none"]
    /\ itask' = [itask EXCEPT ![w] = 0]
    /\ UNCHANGED <<task_fn, wpc, wtask, fn_runs, finished_calls, fn_exit>>
    /\ UNCHANGED cancel_during

\* ======================================================================
\* Stream.py: ValueStream, MapStream, CombineLatestStream, OptionalStream
\* ======================================================================
\* The graph: two ValueStream sources "A" and "B";
\*   "C" = CombineLatestStream([A, B])        (default value_fn: the tuple)
\*   "M" = MapStream(C, value_fn)             (value_fn: the sum of the pair)
\*   "O" = OptionalStream(A, pred)            (pred: the value exceeds 2)
\* A value is a sequence: <<v>> for the number v, <<a, b>> for a tuple, <<>> for None.
\* Propagation is synchronous on the thread that changes a source, so a source
\* change and everything it triggers downstream is one step.
VARIABLES
    node_value,      \* node_value[n]: the field __value of n (OptionalStream has none)
    combine_values,  \* CombineLatestStream.__values
    node_rc,         \* node_rc[n]: ReferenceCounted.__ref_count of n
    node_active,     \* node_active[n]: ReferenceCounted.__active of n
    node_finalized,  \* node_finalized[n]: how many times about_to_delete of n ran
    node_owners,     \* node_owners[n]: references to n held from outside the graph
    built,           \* built[n]: n has been constructed
    listening,       \* listening[n]: the listeners n registered upstream are open
    releases,        \* releases[n]: remove_ref calls n made on each of its upstreams
    release_failed,  \* a remove_ref made by an about_to_delete failed its assertion
    fired_now,       \* fired_now[n]: n fired its value_stream in the last step
    has_fired,       \* has_fired[n]: n has fired its value_stream
    last_fired,      \* last_fired[n]: the last value n fired
    fired_dead,      \* fired_dead[n]: n fired after its about_to_delete
    last_in,         \* last_in[n][i]: the last value n's i-th listener was called with
    dup_in           \* dup_in[n]: in the last step a listener of n was called with the
                     \* value it had been called with the time before

svars == <<node_value, combine_values, node_rc, node_active, node_finalized, node_owners,
           built, listening, releases, release_failed, fired_now, has_fired, last_fired,
           fired_dead, last_in, dup_in>>

Values == {2, 3, 5}
None == <<>>
Sources == {"A", "B"}
Operators == {"C", "M", "O"}
Nodes == Sources \cup Operators
\* The nodes that code outside the graph takes references to; B and C are owned
\* by the operators built on them only.
Owned == {"A", "M", "O"}

\* The streams a node listens to and owns, in the order of its constructor.
Upstreams(n) ==
    CASE n = "C" -> <<"A", "B">>
      [] n = "M" -> <<"C">>
      [] n = "O" -> <<"A">>
      [] OTHER -> <<>>

\* CombineLatestStream's default value_fn: lambda *x: tuple(x)
CombineFn(vals) == <<vals[1][1], vals[2][1]>>

\* The value_fn given to the MapStream: the sum of the pair.
MapFn(v) == <<v[1] + v[2]>>

\* The predicate given to the OptionalStream.
Pred(v) == v[1] > 2

\* The property `value` of a node; OptionalStream.value returns None.
ValueOf(n) == IF n = "O" THEN None ELSE node_value[n]

\* A = ValueStream(2) and B = ValueStream(3) exist; no operator is built yet.
StreamInit ==
    /\ node_value = [n \in Nodes |-> CASE n = "A" -> <<2>> [] n = "B" -> <<3>> [] OTHER -> None]
    /\ combine_values = <<None, None>>
    /\ node_rc = [n \in Nodes |-> 0]
    /\ node_active = [n \in Nodes |-> TRUE]
    /\ node_finalized = [n \in Nodes |-> 0]
    /\ node_owners = [n \in Nodes |-> 0]
    /\ built = [n \in Nodes |-> n \in Sources]
    /\ listening = [n \in Nodes |-> FALSE]
    /\ releases = [n \in Nodes |-> 0]
    /\ release_failed = FALSE
    /\ fired_now = [n \in Nodes |-> FALSE]
    /\ has_fired = [n \in Nodes |-> FALSE]
    /\ last_fired = [n \in Nodes |-> None]
    /\ fired_dead = [n \in Nodes |-> FALSE]
    /\ last_in = [n \in Nodes |-> <<None, None>>]
    /\ dup_in = [n \in Nodes |-> FALSE]

\* --- reference counting over the graph ---------------------------------
\* The part of the state that remove_ref and about_to_delete work on.
RefState ==
    [rc |-> node_rc, active |-> node_active, fin |-> node_finalized, lis |-> listening,
     val |-> node_value, rel |-> releases, failed |-> release_failed]

RECURSIVE RemoveRefOn(_, _)
RECURSIVE AboutToDelete(_, _)

\* n.remove_ref(): the assertion, the decrement and, for the first zero of an
\* active object, about_to_delete.
RemoveRefOn(st, n) ==
    IF st.rc[n] = 0 THEN [st EXCEPT !.failed = TRUE]
    ELSE LET s1 == [st EXCEPT !.rc[n] = @ - 1]
         IN  IF s1.active[n] /\ s1.rc[n] = 0
             THEN AboutToDelete([s1 EXCEPT !.active[n] = FALSE], n)
             ELSE s1

\* Fault variant of AboutToDelete: the upstream references are kept.
AboutToDeleteKeepsRefs(st, n) ==
    [st EXCEPT !.fin[n] = @ + 1, !.lis[n] = FALSE,
               !.val[n] = IF n = "M" THEN None ELSE @]

\* MapStream / CombineLatestStream / OptionalStream .about_to_delete: each
\* listener is closed and dropped and each upstream released, in the order of the
\* constructor; MapStream also resets its value.  A ValueStream has nothing to
\* release.
AboutToDelete(st, n) ==
    LET s1 == [st EXCEPT !.fin[n] = @ + 1, !.lis[n] = FALSE,
                         !.val[n] = IF n = "M" THEN None ELSE @,
                         !.rel[n] = IF n \in Operators THEN @ + 1 ELSE @]
        ups == Upstreams(n)
    IN  CASE Len(ups) = 0 -> s1
          [] Len(ups) = 1 -> RemoveRefOn(s1, ups[1])
          [] OTHER -> RemoveRefOn(RemoveRefOn(s1, ups[1]), ups[2])

\* The state after remove_ref / about_to_delete is written back.
StoreRefState(st) ==
    /\ node_rc' = st.rc
    /\ node_active' = st.active
    /\ node_finalized' = st.fin
    /\ listening' = st.lis
    /\ node_value' = st.val
    /\ releases' = st.rel
    /\ release_failed' = st.failed

\* No value_stream fires in this step.
NothingFires ==
    /\ fired_now' = [n \in Nodes |-> FALSE]
    /\ dup_in' = [n \in Nodes |-> FALSE]
    /\ UNCHANGED <<has_fired, last_fired, fired_dead, last_in>>

\* An owner outside the graph takes a reference: n.add_ref().
AddRefNode(n) ==
    /\ built[n]
    /\ node_owners[n] < MaxOwners
    /\ node_owners' = [node_owners EXCEPT ![n] = @ + 1]
    /\ node_rc' = [node_rc EXCEPT ![n] = @ + 1]
    /\ NothingFires
    /\ UNCHANGED <<node_value, combine_values, node_active, node_finalized, built,
                   listening, releases, release_failed>>

\* An owner outside the graph gives its reference up: n.remove_ref().
RemoveRefNode(n) ==
    /\ node_owners[n] > 0
    /\ node_owners' = [node_owners EXCEPT ![n] = @ - 1]
    /\ StoreRefState(RemoveRefOn(RefState, n))
    /\ NothingFires
    /\ UNCHANGED <<combine_values, built>>

\* --- firing --------------------------------------------------------------
\* The record of the value_stream fires of one step: fires maps each node that
\* fired to the value it fired.
RecordFires(fires) ==
    /\ fired_now' = [n \in Nodes |-> n \in DOMAIN fires]
    /\ has_fired' = [n \in Nodes |-> has_fired[n] \/ n \in DOMAIN fires]
    /\ last_fired' = [n \in Nodes |-> IF n \in DOMAIN fires THEN fires[n] ELSE last_fired[n]]
    /\ fired_dead' = [n \in Nodes |->
                        fired_dead[n] \/ (n \in DOMAIN fires /\ node_finalized[n] > 0)]

\* The record of the listener calls of one step: calls maps each node whose
\* listener was called to the pair <<index of the listener, value>>.
RecordCalls(calls) ==
    /\ last_in' = [n \in Nodes |->
                     IF n \in DOMAIN calls
                     THEN [last_in[n] EXCEPT ![calls[n][1]] = calls[n][2]]
                     ELSE last_in[n]]
    /\ dup_in' = [n \in Nodes |->
                    n \in DOMAIN calls /\ last_in[n][calls[n][1]] = calls[n][2]]

\* A function given by the pairs of a set of <<key, value>> with distinct keys.
FnOf(pairs) ==
    [k \in {p[1] : p \in pairs} |-> (CHOOSE p \in pairs : p[1] = k)[2]]

\* MapStream update_value(new_value): the value the node takes and whether it fires.
MapFires(in) == MapFn(in) # node_value["M"]

\* OptionalStream.__value_changed(value): the value fired.
OptionalOut(in) == IF Pred(in) THEN in ELSE None

\* Fault variant of ValuesAfter: the value is stored at the other index.
ValuesAfterOtherIndex(i, v) == [combine_values EXCEPT ![3 - i] = v]

\* CombineLatestStream.__handle_stream_value(index, value): the list __values.
ValuesAfter(i, v) == [combine_values EXCEPT ![i] = v]

\* source.value_stream.fire(v): the listeners of C and O on that source are
\* called; __values_changed of C assigns and fires the recomputed value, which
\* calls the listener of M.
Propagate(s, v) ==
    LET i == IF s = "A" THEN 1 ELSE 2
        toC == listening["C"]
        toO == listening["O"] /\ s = "A"
        cvals == IF toC THEN ValuesAfter(i, v) ELSE combine_values
        cval == IF toC THEN CombineFn(cvals) ELSE node_value["C"]
        cfires == toC
        toM == cfires /\ listening["M"]
        mfires == toM /\ MapFires(cval)
        mval == IF mfires THEN MapFn(cval) ELSE node_value["M"]
    IN  /\ combine_values' = cvals
        /\ node_value' = [node_value EXCEPT ![s] = v, !["C"] = cval, !["M"] = mval]
        /\ RecordFires(FnOf({<<s, v>>}
                            \cup (IF cfires THEN {<<"C", cval>>} ELSE {})
                            \cup (IF mfires THEN {<<"M", mval>>} ELSE {})
                            \cup (IF toO THEN {<<"O", OptionalOut(v)>>} ELSE {})))
        /\ RecordCalls(FnOf((IF toC THEN {<<"C", <<i, v>>>>} ELSE {})
                            \cup (IF toM THEN {<<"M", <<1, cval>>>>} ELSE {})
                            \cup (IF toO THEN {<<"O", <<1, v>>>>} ELSE {})))

\* ValueStream.value = v: the setter sends the value if it differs.
SetValue(s, v) ==
    /\ node_value[s] # <<v>>
    /\ Propagate(s, <<v>>)
    /\ UNCHANGED <<node_rc, node_active, node_finalized, node_owners, built, listening,
                   releases, release_failed>>

\* ValueStream.send_value(v): the value is stored and fired unconditionally.
SendValue(s, v) ==
    /\ Propagate(s, <<v>>)
    /\ UNCHANGED <<node_rc, node_active, node_finalized, node_owners, built, listening,
                   releases, release_failed>>

\* --- constructors ----------------------------------------------------------
\* CombineLatestStream([A, B]): add_ref on each source, a listener on each, the
\* values read, and __values_changed, which fires.
BuildCombine ==
    /\ ~built["C"]
    /\ built' = [built EXCEPT !["C"] = TRUE]
    /\ node_rc' = [node_rc EXCEPT !["A"] = @ + 1, !["B"] = @ + 1]
    /\ listening' = [listening EXCEPT !["C"] = TRUE]
    /\ combine_values' = <<node_value["A"], node_value["B"]>>
    /\ node_value' = [node_value EXCEPT !["C"] = CombineFn(combine_values')]
    /\ RecordFires(FnOf({<<"C", node_value'["C"]>>}))
    /\ RecordCalls(FnOf({}))
    /\ UNCHANGED <<node_active, node_finalized, node_owners, releases, release_failed>>

\* MapStream(C, value_fn): add_ref, a listener, and update_value(C.value).
BuildMap ==
    /\ ~built["M"]
    /\ built["C"]
    /\ built' = [built EXCEPT !["M"] = TRUE]
    /\ node_rc' = [node_rc EXCEPT !["C"] = @ + 1]
    /\ listening' = [listening EXCEPT !["M"] = TRUE]
    /\ node_value' = [node_value EXCEPT !["M"] = MapFn(node_value["C"])]
    /\ RecordFires(FnOf(IF MapFires(node_value["C"])
                        THEN {<<"M", MapFn(node_value["C"])>>} ELSE {}))
    /\ RecordCalls(FnOf({}))
    /\ UNCHANGED <<combine_values, node_active, node_finalized, node_owners, releases,
                   release_failed>>

\* OptionalStream(A, pred): add_ref, a listener, and __value_changed(A.value).
BuildOptional ==
    /\ ~built["O"]
    /\ built' = [built EXCEPT !["O"] = TRUE]
    /\ node_rc' = [node_rc EXCEPT !["A"] = @ + 1]
    /\ listening' = [listening EXCEPT !["O"] = TRUE]
    /\ RecordFires(FnOf({<<"O", OptionalOut(node_value["A"])>>}))
    /\ RecordCalls(FnOf({}))
    /\ UNCHANGED <<node_value, combine_values, node_active, node_finalized, node_owners,
                   releases, release_failed>>

\* ======================================================================
\* Stream.py: DebounceStream (with StreamTask)
\* ======================================================================
\* d = DebounceStream(a, Period) over a ValueStream a, on one event loop.  Time
\* is a clock of whole instants; a sleep ends no earlier than its deadline.
VARIABLES
    db_now,       \* the clock
    db_in,        \* the value of the upstream ValueStream
    db_holder,    \* DebounceValue.value (also the property DebounceStream.value)
    db_task,      \* StreamTask.__task: "none" (None), "sleeping" (in asyncio.sleep),
                  \* "fired" (the coroutine has fired and ended; the done callback
                  \* zero_task has not run yet, so is_active is still True)
    db_deadline,  \* the instant at which the sleep of the task ends
    db_log        \* what happened, in order: <<"update", time, value, task>> for a
                  \* value delivered by the upstream, <<"emit", time, value, task>>
                  \* for a value fired on d.value_stream; task is db_task just before

dbvars == <<db_now, db_in, db_holder, db_task, db_deadline, db_log>>

\* The period given to the DebounceStream and to the SampleStream, in instants.
Period == 2

\* The state after a = ValueStream(2); d = DebounceStream(a, Period): the constructor has called
\* __value_changed(a.value), which stored the value and created the timer task.
DebounceInit ==
    /\ db_now = 0
    /\ db_in = <<2>>
    /\ db_holder = db_in
    /\ db_task = "sleeping"
    /\ db_deadline = Period
    /\ db_log = <<>>

DebounceUpdates == SelectSeq(db_log, LAMBDA e : e[1] = "update")

\* Time passes.
DebounceTick ==
    /\ db_now < MaxTime
    /\ db_now' = db_now + 1
    /\ UNCHANGED <<db_in, db_holder, db_task, db_deadline, db_log>>

\* DebounceStream.__value_changed(value): the value is stored, and a timer task
\* is created only if the StreamTask is not active.
DebounceValueChanged(value) ==
    /\ db_holder' = value
    /\ IF db_task = "none"
       THEN /\ db_task' = "sleeping"
            /\ db_deadline' = db_now + Period
       ELSE UNCHANGED <<db_task, db_deadline>>

\* a.value = v with a new value: the setter fires it and the listener of d runs.
DebounceUpdate(v) ==
    /\ Len(DebounceUpdates) < MaxUpdates
    /\ db_in # <<v>>
    /\ db_in' = <<v>>
    /\ DebounceValueChanged(<<v>>)
    /\ db_log' = Append(db_log, <<"update", db_now, <<v>>, db_task>>)
    /\ UNCHANGED db_now

\* debounce_delay: the sleep has ended; value_stream.fire(value_holder.value),
\* and the coroutine returns.
DebounceTimerFires ==
    /\ db_task = "sleeping"
    /\ db_now >= db_deadline
    /\ db_log' = Append(db_log, <<"emit", db_now, db_holder, db_task>>)
    /\ db_task' = "fired"
    /\ UNCHANGED <<db_now, db_in, db_holder, db_deadline>>

\* zero_task, the done callback of the task, run by the event loop in a later
\* iteration: StreamTask.__task = None.
DebounceTaskDone ==
    /\ db_task = "fired"
    /\ db_task' = "none"
    /\ UNCHANGED <<db_now, db_in, db_holder, db_deadline, db_log>>

\* ======================================================================
\* Stream.py: SampleStream (with SampleValue)
\* ======================================================================
\* s = SampleStream(a, Period) over a ValueStream a, on one event loop.
VARIABLES
    sm_now,      \* the clock
    sm_in,       \* the value of the upstream ValueStream
    sm_value,    \* SampleValue.value (also the property SampleStream.value)
    sm_pending,  \* SampleValue.pending_value
    sm_dirty,    \* SampleValue.is_dirty
    sm_wake,     \* the instant at which the sleep of sample_loop ends
    sm_updates,  \* upstream updates made so far
    sm_arrived,  \* the values delivered by the upstream since the last wake-up
    sm_woke      \* the last wake-up: <<values that had arrived since the one before,
                 \* values fired on s.value_stream by it>>, or <<>> before the first

smvars == <<sm_now, sm_in, sm_value, sm_pending, sm_dirty, sm_wake, sm_updates,
            sm_arrived, sm_woke>>

\* The state after a = ValueStream(2); s = SampleStream(a, Period): the value is
\* read from the upstream and sample_loop is in its first sleep.
SampleInit ==
    /\ sm_now = 0
    /\ sm_in = <<2>>
    /\ sm_value = sm_in
    /\ sm_pending = None
    /\ sm_dirty = FALSE
    /\ sm_wake = Period
    /\ sm_updates = 0
    /\ sm_arrived = <<>>
    /\ sm_woke = <<>>

\* Time passes.
SampleTick ==
    /\ sm_now < MaxTime
    /\ sm_now' = sm_now + 1
    /\ UNCHANGED <<sm_in, sm_value, sm_pending, sm_dirty, sm_wake, sm_updates,
                   sm_arrived, sm_woke>>

\* a.value = v with a new value: the setter fires it, and the listener of s
\* calls SampleValue.set_pending_value(v).
SampleUpdate(v) ==
    /\ sm_updates < MaxUpdates
    /\ sm_in # <<v>>
    /\ sm_in' = <<v>>
    /\ sm_pending' = <<v>>
    /\ sm_dirty' = TRUE
    /\ sm_updates' = sm_updates + 1
    /\ sm_arrived' = Append(sm_arrived, <<v>>)
    /\ UNCHANGED <<sm_now, sm_value, sm_wake, sm_woke>>

\* Fault variant of SampleWake: the value is fired whether or not it is dirty.
SampleWakeAlwaysFires ==
    /\ sm_now >= sm_wake
    /\ sm_wake' = sm_now + Period
    /\ sm_value' = IF sm_dirty THEN sm_pending ELSE sm_value
    /\ sm_dirty' = FALSE
    /\ sm_woke' = <<sm_arrived, <<sm_value'>>>>
    /\ sm_arrived' = <<>>
    /\ UNCHANGED <<sm_now, sm_in, sm_pending, sm_updates>>

\* sample_loop: the sleep has ended; if the value is dirty it is taken over and
\* fired; the loop sleeps again.
SampleWake ==
    /\ sm_now >= sm_wake
    /\ sm_wake' = sm_now + Period
    /\ IF sm_dirty
       THEN /\ sm_value' = sm_pending
            /\ sm_dirty' = FALSE
            /\ sm_woke' = <<sm_arrived, <<sm_value'>>>>
       ELSE /\ sm_woke' = <<sm_arrived, <<>>>>
            /\ UNCHANGED <<sm_value, sm_dirty>>
    /\ sm_arrived' = <<>>
    /\ UNCHANGED <<sm_now, sm_in, sm_pending, sm_updates>>

\* ======================================================================
\* Stream.py: ConcatStream over downstream streams made by concat_fn
\* ======================================================================
\* The downstream streams are ValueStreams made by the factory, numbered in
\* the order of their creation.  A discarded downstream stream is still an
\* object its maker can set values on.
VARIABLES
    cc_alive,       \* the ConcatStream has not been finalized
    cc_item,        \* the last upstream item handled
    cc_value,       \* ConcatStream.__value
    cc_out,         \* ConcatStream.__out_stream: 0 is None, else a stream number
    cc_made,        \* number of downstream streams made by concat_fn
    ds_value,       \* value of each downstream stream
    ds_rc,          \* reference count of each downstream stream
    ds_listened,    \* the ConcatStream's listener on the stream is open
    ds_released,    \* remove_ref calls the ConcatStream made on the stream
    ds_finalized,   \* about_to_delete calls of the stream
    cc_fired        \* what the last step fired on ConcatStream.value_stream:
                    \* a sequence of <<stream number or 0, value>>

ccvars == <<cc_alive, cc_item, cc_value, cc_out, cc_made, ds_value, ds_rc,
            ds_listened, ds_released, ds_finalized, cc_fired>>

Downstreams == 1..MaxDownstreams

\* Upstream items: None and 0 are falsy, the others are not.
Items == {None, <<0>>, <<2>>, <<3>>}

\* `if item:`
Truthy(item) == item # None /\ item[1] # 0

\* concat_fn: a new ValueStream holding the item.
ConcatFn(item) == item

\* __init__ over an upstream whose value is None: __stream_changed(None) sets
\* the value to None and fires None to no listener.
ConcatInit ==
    /\ cc_alive = TRUE
    /\ cc_item = None
    /\ cc_value = None
    /\ cc_out = 0
    /\ cc_made = 0
    /\ ds_value = [d \in Downstreams |-> None]
    /\ ds_rc = [d \in Downstreams |-> 0]
    /\ ds_listened = [d \in Downstreams |-> FALSE]
    /\ ds_released = [d \in Downstreams |-> 0]
    /\ ds_finalized = [d \in Downstreams |-> 0]
    /\ cc_fired = <<>>

\* Fault variant: the listener on the previous downstream stream stays open.
OutStreamListenerKept(listened, d) == listened

\* self.__out_stream_listener.close()
OutStreamListenerClosed(listened, d) == [listened EXCEPT ![d] = FALSE]

\* The first half of __stream_changed and of about_to_delete: close the
\* listener on the held downstream stream and release it; the release of the
\* last reference finalizes the stream.
DropOutStream ==
    IF cc_out = 0
    THEN UNCHANGED <<ds_listened, ds_rc, ds_released, ds_finalized>>
    ELSE /\ ds_listened' = OutStreamListenerClosed(ds_listened, cc_out)
         /\ ds_rc' = [ds_rc EXCEPT ![cc_out] = @ - 1]
         /\ ds_released' = [ds_released EXCEPT ![cc_out] = @ + 1]
         /\ ds_finalized' = [ds_finalized EXCEPT
                                ![cc_out] = IF ds_rc[cc_out] = 1 THEN @ + 1 ELSE @]

\* ConcatStream.__stream_changed(item) with a falsy item.
ConcatStreamChangedFalsy(item) ==
    /\ cc_alive
    /\ ~Truthy(item)
    /\ DropOutStream
    /\ cc_item' = item
    /\ cc_out' = 0
    /\ cc_value' = None
    /\ cc_fired' = <<<<0, None>>>>
    /\ UNCHANGED <<cc_alive, cc_made, ds_value>>

\* ConcatStream.__stream_changed(item) with a truthy item: the previous
\* downstream stream is dropped, then a new one is made, referenced, listened
\* to, and its value republished.
ConcatStreamChanged(item) ==
    /\ cc_alive
    /\ Truthy(item)
    /\ cc_made < MaxDownstreams
    /\ LET new == cc_made + 1
           listened == IF cc_out = 0 THEN ds_listened
                       ELSE OutStreamListenerClosed(ds_listened, cc_out)
       IN  /\ cc_made' = new
           /\ cc_item' = item
           /\ cc_out' = new
           /\ ds_value' = [ds_value EXCEPT ![new] = ConcatFn(item)]
           /\ ds_listened' = [listened EXCEPT ![new] = TRUE]
           /\ ds_rc' = [d \in Downstreams |->
                           IF d = new THEN ds_rc[d] + 1
                           ELSE IF d = cc_out THEN ds_rc[d] - 1 ELSE ds_rc[d]]
           /\ ds_released' = [d \in Downstreams |->
                                 IF d = cc_out THEN ds_released[d] + 1 ELSE ds_released[d]]
           /\ ds_finalized' = [d \in Downstreams |->
                                  IF d = cc_out /\ ds_rc[d] = 1
                                  THEN ds_finalized[d] + 1 ELSE ds_finalized[d]]
           /\ cc_value' = ConcatFn(item)
           /\ cc_fired' = <<<<new, ConcatFn(item)>>>>
    /\ UNCHANGED cc_alive

\* The maker of downstream stream d sets a new value on it (ValueStream.value
\* setter); out_stream_changed runs if the ConcatStream's listener is open.
DownstreamSetValue(d, v) ==
    /\ d <= cc_made
    /\ ds_value[d] # <<v>>
    /\ ds_value' = [ds_value EXCEPT ![d] = <<v>>]
    /\ IF ds_listened[d]
       THEN /\ cc_value' = <<v>>
            /\ cc_fired' = <<<<d, <<v>>>>>>
       ELSE /\ cc_fired' = <<>>
            /\ UNCHANGED cc_value
    /\ UNCHANGED <<cc_alive, cc_item, cc_out, cc_made, ds_rc, ds_listened,
                   ds_released, ds_finalized>>

\* ConcatStream.about_to_delete
ConcatAboutToDelete ==
    /\ cc_alive
    /\ DropOutStream
    /\ cc_alive' = FALSE
    /\ cc_out' = 0
    /\ cc_value' = None
    /\ cc_fired' = <<>>
    /\ UNCHANGED <<cc_item, cc_made, ds_value>>

\* ======================================================================
\* Stream.py: StreamTask and the finalization of DebounceStream / SampleStream
\* ======================================================================
\* The asyncio task of a timed stream, followed through the points where the
\* event loop can interleave other callbacks, and about_to_delete arriving at
\* any of them.
VARIABLES
    ft_kind,        \* "none" (not constructed), "debounce" or "sample"
    ft_alive,       \* about_to_delete has not run
    ft_ref,         \* StreamTask.__task is not None
    ft_coro,        \* the coroutine: "none", "sleeping" (awaiting the sleep),
                    \* "woken" (the sleep is over, the resumption is scheduled),
                    \* "done" (ended, its done callback is scheduled)
    ft_cancel,      \* cancel was requested and is delivered at the next resumption
    ft_dirty,       \* SampleValue.is_dirty
    ft_updates,     \* number of upstream values delivered
    ft_fires,       \* number of value_stream.fire calls
    ft_point,       \* where the coroutine was when about_to_delete ran
    ft_late         \* a value_stream.fire call began after about_to_delete returned

ftvars == <<ft_kind, ft_alive, ft_ref, ft_coro, ft_cancel, ft_dirty,
            ft_updates, ft_fires, ft_point, ft_late>>

FinalizeInit ==
    /\ ft_kind = "none"
    /\ ft_alive = TRUE
    /\ ft_ref = FALSE
    /\ ft_coro = "none"
    /\ ft_cancel = FALSE
    /\ ft_dirty = FALSE
    /\ ft_updates = 0
    /\ ft_fires = 0
    /\ ft_point = "never"
    /\ ft_late = FALSE

\* DebounceStream.__init__: __value_changed(input_stream.value) starts a timer.
BuildDebounce ==
    /\ ft_kind = "none"
    /\ ft_kind' = "debounce"
    /\ ft_ref' = TRUE
    /\ ft_coro' = "sleeping"
    /\ UNCHANGED <<ft_alive, ft_cancel, ft_dirty, ft_updates, ft_fires, ft_point, ft_late>>

\* SampleStream.__init__: StreamTask(sample_loop(...)) starts the loop.
BuildSample ==
    /\ ft_kind = "none"
    /\ ft_kind' = "sample"
    /\ ft_ref' = TRUE
    /\ ft_coro' = "sleeping"
    /\ UNCHANGED <<ft_alive, ft_cancel, ft_dirty, ft_updates, ft_fires, ft_point, ft_late>>

\* The upstream fires while the listener is open: DebounceStream.__value_changed
\* starts a timer unless the StreamTask is active, SampleStream.__value_changed
\* marks the sample dirty.
TimedValueChanged ==
    /\ ft_kind # "none"
    /\ ft_alive
    /\ ft_updates < MaxUpdates
    /\ ft_updates' = ft_updates + 1
    /\ IF ft_kind = "debounce"
       THEN /\ IF ft_ref
               THEN UNCHANGED <<ft_ref, ft_coro>>
               ELSE ft_ref' = TRUE /\ ft_coro' = "sleeping"
            /\ UNCHANGED ft_dirty
       ELSE /\ ft_dirty' = TRUE
            /\ UNCHANGED <<ft_ref, ft_coro>>
    /\ UNCHANGED <<ft_kind, ft_alive, ft_cancel, ft_fires, ft_point, ft_late>>

\* asyncio.sleep(period) is over: the loop schedules the resumption.
SleepExpires ==
    /\ ft_coro = "sleeping"
    /\ ft_coro' = "woken"
    /\ UNCHANGED <<ft_kind, ft_alive, ft_ref, ft_cancel, ft_dirty, ft_updates,
                   ft_fires, ft_point, ft_late>>

\* Fault variant: clear forgets the task without cancelling it.
StreamTaskClearForgets(st) == [st EXCEPT !.ref = FALSE]

\* StreamTask.clear on the state st = [ref, coro, cancel]: Task.cancel ends a
\* sleeping task (its sleep is cancelled and CancelledError is thrown into it),
\* marks a woken or running task, and does nothing to a task that is done.
StreamTaskClear(st) ==
    IF ~st.ref THEN st
    ELSE [ref |-> FALSE,
          coro |-> IF st.coro = "sleeping" THEN "done" ELSE st.coro,
          cancel |-> st.cancel \/ st.coro \in {"woken", "running"}]

\* The loop resumes the coroutine.  With a cancel pending it gets
\* CancelledError and ends.  Otherwise debounce_delay fires and returns;
\* sample_loop fires if the sample is dirty and sleeps again.  With fin, a
\* listener of the emission releases the last reference to the stream, so
\* about_to_delete runs inside the fire call, and the cancel it requests is
\* delivered when the coroutine next awaits.
Resume(fin) ==
    /\ ft_coro = "woken"
    /\ LET fires == ~ft_cancel /\ (ft_kind = "debounce" \/ ft_dirty)
           st == IF fin
                 THEN StreamTaskClear([ref |-> ft_ref, coro |-> "running", cancel |-> FALSE])
                 ELSE [ref |-> ft_ref, coro |-> "running", cancel |-> FALSE]
       IN  /\ fin => (fires /\ ft_alive)
           /\ ft_fires' = IF fires THEN ft_fires + 1 ELSE ft_fires
           /\ ft_late' = (ft_late \/ (fires /\ ~ft_alive))
           /\ ft_alive' = (ft_alive /\ ~fin)
           /\ ft_point' = IF fin THEN "running" ELSE ft_point
           /\ ft_ref' = st.ref
           /\ ft_dirty' = (ft_dirty /\ ~fires)
           /\ ft_cancel' = FALSE
           /\ ft_coro' = IF ft_cancel \/ st.cancel \/ ft_kind = "debounce"
                         THEN "done" ELSE "sleeping"
    /\ UNCHANGED <<ft_kind, ft_updates>>

\* zero_task, the done callback of the task.
ZeroTask ==
    /\ ft_coro = "done"
    /\ ft_coro' = "none"
    /\ ft_ref' = FALSE
    /\ UNCHANGED <<ft_kind, ft_alive, ft_cancel, ft_dirty, ft_updates, ft_fires,
                   ft_point, ft_late>>

\* DebounceStream.about_to_delete / SampleStream.about_to_delete, called
\* between two callbacks of the loop.
TimedAboutToDelete ==
    /\ ft_kind # "none"
    /\ ft_alive
    /\ LET st == StreamTaskClear([ref |-> ft_ref, coro |-> ft_coro, cancel |-> ft_cancel])
       IN  /\ ft_ref' = st.ref
           /\ ft_coro' = st.coro
           /\ ft_cancel' = st.cancel
    /\ ft_alive' = FALSE
    /\ ft_point' = ft_coro
    /\ UNCHANGED <<ft_kind, ft_dirty, ft_updates, ft_fires, ft_late>>

\* ======================================================================
\* Stream.py: ValueChangeStream over a wrapped ValueStream
\* ======================================================================
VARIABLES
    vc_active,      \* ValueChangeStream.__is_active
    vc_wrapped,     \* value of the wrapped stream
    vc_value,       \* the stream's own value: None or <<tag, value>>
    vc_fired,       \* what the last step fired on value_stream
    vc_log,         \* tags fired since the last begin() made while inactive
    vc_rebegin,     \* begin() was called again while that activity was under way
    vc_ops          \* number of operations so far

vcvars == <<vc_active, vc_wrapped, vc_value, vc_fired, vc_log, vc_rebegin, vc_ops>>

\* ValueChangeType
BEGIN == 0
CHANGE == 1
END == 2

ValueChangeInit ==
    /\ vc_active = FALSE
    /\ vc_wrapped = <<2>>
    /\ vc_value = None
    /\ vc_fired = <<>>
    /\ vc_log = <<>>
    /\ vc_rebegin = FALSE
    /\ vc_ops = 0

\* Fault variant: _send_value without the test of __is_active.
SendValueAlways(is_active, change) == <<change>>

\* ValueChangeStream._send_value, reached from the value setter (a new
\* ValueChange never equals the stored one): what is fired.
SendValueIfActive(is_active, change) == IF is_active THEN <<change>> ELSE <<>>

\* ValueChangeStream.begin
ValueChangeBegin ==
    /\ vc_ops < MaxChangeOps
    /\ vc_ops' = vc_ops + 1
    /\ vc_active' = TRUE
    /\ vc_value' = <<BEGIN, vc_wrapped>>
    /\ vc_fired' = SendValueIfActive(TRUE, vc_value')
    /\ vc_log' = IF vc_active THEN vc_log \o <<BEGIN>> ELSE <<BEGIN>>
    /\ vc_rebegin' = vc_active
    /\ UNCHANGED vc_wrapped

\* ValueChangeStream.end
ValueChangeEnd ==
    /\ vc_ops < MaxChangeOps
    /\ vc_ops' = vc_ops + 1
    /\ vc_value' = <<END, vc_wrapped>>
    /\ vc_fired' = SendValueIfActive(vc_active, vc_value')
    /\ vc_active' = FALSE
    /\ vc_log' = vc_log \o [i \in 1..Len(vc_fired') |-> END]
    /\ UNCHANGED <<vc_wrapped, vc_rebegin>>

\* The wrapped ValueStream is given a new value and fires;
\* ValueChangeStream.__value_changed runs.
ValueChangeWrappedSet(v) ==
    /\ vc_ops < MaxChangeOps
    /\ vc_wrapped # <<v>>
    /\ vc_ops' = vc_ops + 1
    /\ vc_wrapped' = <<v>>
    /\ vc_value' = <<CHANGE, vc_wrapped'>>
    /\ vc_fired' = SendValueIfActive(vc_active, vc_value')
    /\ vc_log' = vc_log \o [i \in 1..Len(vc_fired') |-> CHANGE]
    /\ UNCHANGED <<vc_active, vc_rebegin>>

\* ======================================================================
\* ThreadPool.py: ThreadPool with its worker threads and a closing thread
\* ======================================================================
\* The tasks are private to the pool: the functions queued do not reach them.
\* close is called by a thread that is not a worker of the pool.
VARIABLES
    pl_closed,      \* ThreadPool.__closed
    pl_tasks,       \* ThreadPool.__tasks, a list of task numbers
    pl_queue,       \* ThreadPool.__queue: task numbers, 0 is None
    pl_unfinished,  \* the queue's count of items not yet marked task_done
    pl_calls,       \* number of queue_fn calls made
    pl_made,        \* number of tasks made by queue_fn
    pt_fn,          \* pt_fn[t]: the task's __fn is set
    pt_lock,        \* pt_lock[t]: owner of the task's __lock, 0 if free
    pt_runs,        \* pt_runs[t]: times the task function was entered
    pt_fin,         \* pt_fin[t]: times finished_fn (remove_task) was called
    pt_exit,        \* pt_exit[t]: how the function ended: "none", "normal", "raise"
    th_pc,          \* th_pc[w]: position of worker w in __run: "get", "check",
                    \* "execute" (at the task's lock), "fn", "task_done", "exited"
    th_item,        \* th_item[w]: the item the worker took from the queue
    cl_pc,          \* position of the closing thread: "open" (close not called),
                    \* "cancel" (in the loop over the copied list), "join", "returned"
    cl_todo,        \* the part of the copied task list not yet cancelled
    pl_started,     \* tasks whose function was running when close copied the list
    pl_cancelled,   \* tasks whose function close's cancel found not started
    pl_late         \* queue_fn calls made after close returned

plvars == <<pl_closed, pl_tasks, pl_queue, pl_unfinished, pl_calls, pl_made, pt_fn,
            pt_lock, pt_runs, pt_fin, pt_exit, th_pc, th_item, cl_pc, cl_todo,
            pl_started, pl_cancelled, pl_late>>

PoolThreads == 1..MaxPoolThreads
Queued == 1..MaxQueued
\* The lock owner that stands for the closing thread.
Closer == MaxPoolThreads + 1

\* ThreadPool() followed by start(MaxPoolThreads).
PoolInit ==
    /\ pl_closed = FALSE
    /\ pl_tasks = <<>>
    /\ pl_queue = <<>>
    /\ pl_unfinished = 0
    /\ pl_calls = 0
    /\ pl_made = 0
    /\ pt_fn = [t \in Queued |-> FALSE]
    /\ pt_lock = [t \in Queued |-> 0]
    /\ pt_runs = [t \in Queued |-> 0]
    /\ pt_fin = [t \in Queued |-> 0]
    /\ pt_exit = [t \in Queued |-> "none"]
    /\ th_pc = [w \in PoolThreads |-> "get"]
    /\ th_item = [w \in PoolThreads |-> 0]
    /\ cl_pc = "open"
    /\ cl_todo = <<>>
    /\ pl_started = {}
    /\ pl_cancelled = {}
    /\ pl_late = 0

\* ThreadPool.queue_fn: under the pool's lock, nothing if the pool is closed.
QueueFn ==
    /\ pl_calls < MaxQueued
    /\ pl_calls' = pl_calls + 1
    /\ pl_late' = IF cl_pc = "returned" THEN pl_late + 1 ELSE pl_late
    /\ IF ~pl_closed
       THEN /\ pl_made' = pl_made + 1
            /\ pt_fn' = [pt_fn EXCEPT ![pl_made + 1] = TRUE]
            /\ pl_tasks' = Append(pl_tasks, pl_made + 1)
            /\ pl_queue' = Append(pl_queue, pl_made + 1)
            /\ pl_unfinished' = pl_unfinished + 1
       ELSE UNCHANGED <<pl_made, pt_fn, pl_tasks, pl_queue, pl_unfinished>>
    /\ UNCHANGED <<pl_closed, pt_lock, pt_runs, pt_fin, pt_exit, th_pc, th_item,
                   cl_pc, cl_todo, pl_started, pl_cancelled>>

\* __run: task = self.__queue.get(), which blocks while the queue is empty.
ThreadGet(w) ==
    /\ th_pc[w] = "get"
    /\ pl_queue # <<>>
    /\ th_item' = [th_item EXCEPT ![w] = Head(pl_queue)]
    /\ pl_queue' = Tail(pl_queue)
    /\ th_pc' = [th_pc EXCEPT ![w] = "check"]
    /\ UNCHANGED <<pl_closed, pl_tasks, pl_unfinished, pl_calls, pl_made, pt_fn, pt_lock,
                   pt_runs, pt_fin, pt_exit, cl_pc, cl_todo, pl_started, pl_cancelled, pl_late>>

\* __run: `if task and not self.__closed`, read without the pool's lock.
ThreadCheck(w) ==
    /\ th_pc[w] = "check"
    /\ th_pc' = [th_pc EXCEPT ![w] = IF th_item[w] # 0 /\ ~pl_closed
                                     THEN "execute" ELSE "task_done"]
    /\ UNCHANGED <<pl_closed, pl_tasks, pl_queue, pl_unfinished, pl_calls, pl_made, pt_fn,
                   pt_lock, pt_runs, pt_fin, pt_exit, th_item, cl_pc, cl_todo,
                   pl_started, pl_cancelled, pl_late>>

\* ThreadPoolTask.execute: the lock is taken, `if self.__fn:`, the function
\* is entered.
ThreadExecuteLocked(w) ==
    /\ th_pc[w] = "execute"
    /\ pt_lock[th_item[w]] = 0
    /\ IF pt_fn[th_item[w]]
       THEN /\ pt_lock' = [pt_lock EXCEPT ![th_item[w]] = w]
            /\ pt_runs' = [pt_runs EXCEPT ![th_item[w]] = @ + 1]
            /\ th_pc' = [th_pc EXCEPT ![w] = "fn"]
       ELSE /\ th_pc' = [th_pc EXCEPT ![w] = "task_done"]
            /\ UNCHANGED <<pt_lock, pt_runs>>
    /\ UNCHANGED <<pl_closed, pl_tasks, pl_queue, pl_unfinished, pl_calls, pl_made, pt_fn,
                   pt_fin, pt_exit, th_item, cl_pc, cl_todo, pl_started, pl_cancelled, pl_late>>

\* ThreadPoolTask.execute: the function returns or raises (caught), __fn is
\* cleared, finished_fn = remove_task takes the task off the list, the lock
\* is released.
ThreadFnEnds(w, how) ==
    /\ th_pc[w] = "fn"
    /\ pt_exit' = [pt_exit EXCEPT ![th_item[w]] = how]
    /\ pt_fn' = [pt_fn EXCEPT ![th_item[w]] = FALSE]
    /\ pt_fin' = [pt_fin EXCEPT ![th_item[w]] = @ + 1]
    /\ pl_tasks' = RemoveFirst(pl_tasks, th_item[w])
    /\ pt_lock' = [pt_lock EXCEPT ![th_item[w]] = 0]
    /\ th_pc' = [th_pc EXCEPT ![w] = "task_done"]
    /\ UNCHANGED <<pl_closed, pl_queue, pl_unfinished, pl_calls, pl_made, pt_runs, th_item,
                   cl_pc, cl_todo, pl_started, pl_cancelled, pl_late>>

\* __run: self.__queue.task_done(), then `if not task: break`.
ThreadTaskDone(w) ==
    /\ th_pc[w] = "task_done"
    /\ pl_unfinished' = pl_unfinished - 1
    /\ th_pc' = [th_pc EXCEPT ![w] = IF th_item[w] = 0 THEN "exited" ELSE "get"]
    /\ UNCHANGED <<pl_closed, pl_tasks, pl_queue, pl_calls, pl_made, pt_fn, pt_lock, pt_runs,
                   pt_fin, pt_exit, th_item, cl_pc, cl_todo, pl_started, pl_cancelled, pl_late>>

\* ThreadPool.close, first part: under the pool's lock, __closed is set and
\* the task list is copied.
PoolCloseBegin ==
    /\ cl_pc = "open"
    /\ pl_closed' = TRUE
    /\ cl_todo' = pl_tasks
    /\ pl_started' = {t \in Range(pl_tasks) : pt_lock[t] # 0}
    /\ cl_pc' = "cancel"
    /\ UNCHANGED <<pl_tasks, pl_queue, pl_unfinished, pl_calls, pl_made, pt_fn, pt_lock,
                   pt_runs, pt_fin, pt_exit, th_pc, th_item, pl_cancelled, pl_late>>

\* Fault variant: close drops the copied tasks without cancelling them.
PoolCancelSkipped ==
    /\ cl_pc = "cancel"
    /\ cl_todo # <<>>
    /\ cl_todo' = Tail(cl_todo)
    /\ UNCHANGED <<pl_closed, pl_tasks, pl_queue, pl_unfinished, pl_calls, pl_made, pt_fn,
                   pt_lock, pt_runs, pt_fin, pt_exit, th_pc, th_item, cl_pc, pl_started,
                   pl_cancelled, pl_late>>

\* ThreadPool.close: task.cancel() for the next task of the copy.  The call
\* waits for the task's lock; if __fn is still set it is cleared and
\* finished_fn = remove_task takes the task off the list.
PoolCancelLocked ==
    /\ cl_pc = "cancel"
    /\ cl_todo # <<>>
    /\ pt_lock[Head(cl_todo)] = 0
    /\ cl_todo' = Tail(cl_todo)
    /\ IF pt_fn[Head(cl_todo)]
       THEN /\ pt_fn' = [pt_fn EXCEPT ![Head(cl_todo)] = FALSE]
            /\ pt_fin' = [pt_fin EXCEPT ![Head(cl_todo)] = @ + 1]
            /\ pl_tasks' = RemoveFirst(pl_tasks, Head(cl_todo))
            /\ pl_cancelled' = pl_cancelled \cup {Head(cl_todo)}
       ELSE UNCHANGED <<pt_fn, pt_fin, pl_tasks, pl_cancelled>>
    /\ UNCHANGED <<pl_closed, pl_queue, pl_unfinished, pl_calls, pl_made, pt_lock, pt_runs,
                   pt_exit, th_pc, th_item, cl_pc, pl_started, pl_late>>

\* ThreadPool.close: one None is put on the queue for every thread.
PoolCloseSignal ==
    /\ cl_pc = "cancel"
    /\ cl_todo = <<>>
    /\ pl_queue' = pl_queue \o [i \in PoolThreads |-> 0]
    /\ pl_unfinished' = pl_unfinished + MaxPoolThreads
    /\ cl_pc' = "join"
    /\ UNCHANGED <<pl_closed, pl_tasks, pl_calls, pl_made, pt_fn, pt_lock, pt_runs, pt_fin,
                   pt_exit, th_pc, th_item, cl_todo, pl_started, pl_cancelled, pl_late>>

\* ThreadPool.close: self.__queue.join() returns when no item is unfinished.
PoolCloseJoined ==
    /\ cl_pc = "join"
    /\ pl_unfinished = 0
    /\ cl_pc' = "returned"
    /\ UNCHANGED <<pl_closed, pl_tasks, pl_queue, pl_unfinished, pl_calls, pl_made, pt_fn,
                   pt_lock, pt_runs, pt_fin, pt_exit, th_pc, th_item, cl_todo, pl_started,
                   pl_cancelled, pl_late>>

\* ======================================================================
\* ThreadPool.py: ThreadDispatcher, its worker thread, a thread that triggers
\* and waits, and a closing thread
\* ======================================================================
VARIABLES
    td_event,       \* __thread_event is set
    td_triggered,   \* __triggered_event is set
    td_break,       \* __thread_break
    td_last,        \* __last_time
    td_now,         \* time.time()
    td_pc,          \* position of the worker in __process:
                    \*   "wait"    at the outer __thread_event.wait()
                    \*   "clear"   the wait returned, before `with self.__thread_lock`
                    \*   "inner"   at the test of the inner while loop
                    \*   "iwait"   in __thread_event.wait(timeout)
                    \*   "iclear"  that wait returned, before __thread_event.clear()
                    \*   "post"    after the inner loop
                    \*   "call"    the last test of __thread_break passed, before self.__fn()
                    \*   "fn"      inside self.__fn()
                    \*   "exited"  the thread has ended
    td_set,         \* the local thread_event_set
    td_wres,        \* what the timed wait returned
    td_deadline,    \* when the timed wait times out
    td_starts,      \* number of invocations of the target started
    td_done,        \* number of invocations of the target ended
    td_since,       \* invocations started since the last trigger call
    td_asked,       \* a trigger call was made before close and no invocation
                    \* has started since
    td_gap_ok,      \* every invocation so far started at least the minimum
                    \* interval after the one before had ended
    tw_pc,          \* the waiting caller: "idle", "waiting" (in trigger(wait=True)),
                    \* "returned"
    tw_mark,        \* td_starts when that trigger call was made
    tw_done,        \* td_done when that trigger call returned
    tc_pc,          \* the closing caller: "open", "join", "closed"
    tc_mark,        \* td_starts when close was called
    tc_at           \* td_pc when close was called

tdvars == <<td_event, td_triggered, td_break, td_last, td_now, td_pc, td_set, td_wres,
            td_deadline, td_starts, td_done, td_since, td_asked, td_gap_ok, tw_pc,
            tw_mark, tw_done, tc_pc, tc_mark, tc_at>>

\* The minimum_interval given to the constructor, in ticks of the clock.
MinimumInterval == 2

\* ThreadDispatcher(fn, MinimumInterval) followed by start().  __last_time is
\* 0 and the clock is far from 0, so the first invocation need not wait.
ThreadDispInit ==
    /\ td_event = FALSE
    /\ td_triggered = FALSE
    /\ td_break = FALSE
    /\ td_last = 0 - MinimumInterval
    /\ td_now = 0
    /\ td_pc = "wait"
    /\ td_set = FALSE
    /\ td_wres = FALSE
    /\ td_deadline = 0
    /\ td_starts = 0
    /\ td_done = 0
    /\ td_since = 0
    /\ td_asked = FALSE
    /\ td_gap_ok = TRUE
    /\ tw_pc = "idle"
    /\ tw_mark = 0
    /\ tw_done = 0
    /\ tc_pc = "open"
    /\ tc_mark = 0
    /\ tc_at = "wait"

\* The clock advances; a timed wait does not outlast its timeout.
TdTick ==
    /\ td_now < MaxTime
    /\ ~(td_pc = "iwait" /\ td_now >= td_deadline)
    /\ td_now' = td_now + 1
    /\ UNCHANGED <<td_event, td_triggered, td_break, td_last, td_pc, td_set, td_wres,
                   td_deadline, td_starts, td_done, td_since, td_gap_ok, tw_pc, tw_mark,
                   tw_done, tc_pc, tc_mark, tc_at>>
    /\ UNCHANGED td_asked

\* trigger(): __thread_event.set()
Trigger ==
    /\ td_event' = TRUE
    /\ td_since' = 0
    /\ UNCHANGED <<td_triggered, td_break, td_last, td_now, td_pc, td_set, td_wres,
                   td_deadline, td_starts, td_done, td_gap_ok, tw_pc, tw_mark,
                   tw_done, tc_pc, tc_mark, tc_at>>
    /\ td_asked' = (td_asked \/ ~td_break)

\* trigger(wait=True), up to __triggered_event.wait(): under the lock,
\* __triggered_event is cleared and __thread_event set.
TriggerWait ==
    /\ tw_pc \in {"idle", "returned"}
    /\ td_triggered' = FALSE
    /\ td_event' = TRUE
    /\ td_since' = 0
    /\ tw_pc' = "waiting"
    /\ tw_mark' = td_starts
    /\ UNCHANGED <<td_break, td_last, td_now, td_pc, td_set, td_wres, td_deadline,
                   td_starts, td_done, td_gap_ok, tw_done, tc_pc, tc_mark, tc_at>>
    /\ td_asked' = (td_asked \/ ~td_break)

\* trigger(wait=True): __triggered_event.wait() returns.
TriggerWaitReturns ==
    /\ tw_pc = "waiting"
    /\ td_triggered
    /\ tw_pc' = "returned"
    /\ tw_done' = td_done
    /\ UNCHANGED <<td_event, td_triggered, td_break, td_last, td_now, td_pc, td_set,
                   td_wres, td_deadline, td_starts, td_done, td_since, td_gap_ok,
                   tw_mark, tc_pc, tc_mark, tc_at>>
    /\ UNCHANGED td_asked

\* __process: the outer __thread_event.wait() returns.
ProcessWaitReturns ==
    /\ td_pc = "wait"
    /\ td_event
    /\ td_pc' = "clear"
    /\ UNCHANGED <<td_event, td_triggered, td_break, td_last, td_now, td_set, td_wres,
                   td_deadline, td_starts, td_done, td_since, td_gap_ok, tw_pc, tw_mark,
                   tw_done, tc_pc, tc_mark, tc_at>>
    /\ UNCHANGED td_asked

\* __process: the event is cleared under the lock; `if self.__thread_break:
\* break`; thread_event_set = False.
ProcessClear ==
    /\ td_pc = "clear"
    /\ td_event' = FALSE
    /\ td_set' = FALSE
    /\ td_pc' = IF td_break THEN "exited" ELSE "inner"
    /\ UNCHANGED <<td_triggered, td_break, td_last, td_now, td_wres, td_deadline,
                   td_starts, td_done, td_since, td_gap_ok, tw_pc, tw_mark, tw_done,
                   tc_pc, tc_mark, tc_at>>
    /\ UNCHANGED td_asked

\* Fault variant: the inner loop does not wait out the interval.
ProcessInnerNoInterval ==
    /\ td_pc = "inner"
    /\ td_pc' = "post"
    /\ UNCHANGED <<td_event, td_triggered, td_break, td_last, td_now, td_set, td_wres,
                   td_deadline, td_starts, td_done, td_since, td_gap_ok, tw_pc, tw_mark,
                   tw_done, tc_pc, tc_mark, tc_at>>
    /\ UNCHANGED td_asked

\* __process: `while not self.__thread_break`, elapsed = time.time() -
\* __last_time, and either the timed wait for the rest of the interval begins
\* or the loop is left.
ProcessInner ==
    /\ td_pc = "inner"
    /\ IF ~td_break /\ MinimumInterval # 0 /\ td_now - td_last < MinimumInterval
       THEN /\ td_pc' = "iwait"
            /\ td_deadline' = td_now + (MinimumInterval - (td_now - td_last))
       ELSE /\ td_pc' = "post"
            /\ UNCHANGED td_deadline
    /\ UNCHANGED <<td_event, td_triggered, td_break, td_last, td_now, td_set, td_wres,
                   td_starts, td_done, td_since, td_gap_ok, tw_pc, tw_mark, tw_done,
                   tc_pc, tc_mark, tc_at>>
    /\ UNCHANGED td_asked

\* __process: __thread_event.wait(timeout) returns True because the event is
\* set, or False because the timeout has passed.
ProcessInnerWaitReturns ==
    /\ td_pc = "iwait"
    /\ td_event \/ td_now >= td_deadline
    /\ td_wres' = td_event
    /\ td_pc' = "iclear"
    /\ UNCHANGED <<td_event, td_triggered, td_break, td_last, td_now, td_set,
                   td_deadline, td_starts, td_done, td_since, td_gap_ok, tw_pc, tw_mark,
                   tw_done, tc_pc, tc_mark, tc_at>>
    /\ UNCHANGED td_asked

\* __process: thread_event_set = True if the wait returned True; then
\* __thread_event.clear(), made without the lock.
ProcessInnerClear ==
    /\ td_pc = "iclear"
    /\ td_set' = (td_set \/ td_wres)
    /\ td_event' = FALSE
    /\ td_pc' = "inner"
    /\ UNCHANGED <<td_triggered, td_break, td_last, td_now, td_wres, td_deadline,
                   td_starts, td_done, td_since, td_gap_ok, tw_pc, tw_mark, tw_done,
                   tc_pc, tc_mark, tc_at>>
    /\ UNCHANGED td_asked

\* __process: `if thread_event_set: self.__thread_event.set()`, then
\* `if self.__thread_break: break`.
ProcessPost ==
    /\ td_pc = "post"
    /\ td_event' = (td_event \/ td_set)
    /\ td_pc' = IF td_break THEN "exited" ELSE "call"
    /\ UNCHANGED <<td_triggered, td_break, td_last, td_now, td_set, td_wres, td_deadline,
                   td_starts, td_done, td_since, td_gap_ok, tw_pc, tw_mark, tw_done,
                   tc_pc, tc_mark, tc_at>>
    /\ UNCHANGED td_asked

\* __process: self.__fn() is entered.
ProcessCall ==
    /\ td_pc = "call"
    /\ td_starts < MaxStarts
    /\ td_starts' = td_starts + 1
    /\ td_since' = td_since + 1
    /\ td_gap_ok' = (td_gap_ok /\ td_now - td_last >= MinimumInterval)
    /\ td_pc' = "fn"
    /\ UNCHANGED <<td_event, td_triggered, td_break, td_last, td_now, td_set, td_wres,
                   td_deadline, td_done, tw_pc, tw_mark, tw_done, tc_pc, tc_mark, tc_at>>
    /\ td_asked' = FALSE

\* Fault variant: the wake event is cleared when the target has ended.
ProcessFnEndsClearsEvent(how) ==
    /\ td_pc = "fn"
    /\ td_triggered' = (td_triggered \/ how = "normal")
    /\ td_last' = td_now
    /\ td_done' = td_done + 1
    /\ td_pc' = "wait"
    /\ td_event' = FALSE
    /\ UNCHANGED <<td_break, td_now, td_set, td_wres, td_deadline, td_starts,
                   td_since, td_gap_ok, tw_pc, tw_mark, tw_done, tc_pc, tc_mark, tc_at>>
    /\ UNCHANGED td_asked

\* __process: self.__fn() returns, and __triggered_event is set, or raises,
\* and the exception is logged; then __last_time = time.time().
ProcessFnEnds(how) ==
    /\ td_pc = "fn"
    /\ td_triggered' = (td_triggered \/ how = "normal")
    /\ td_last' = td_now
    /\ td_done' = td_done + 1
    /\ td_pc' = "wait"
    /\ UNCHANGED <<td_event, td_break, td_now, td_set, td_wres, td_deadline, td_starts,
                   td_since, td_gap_ok, tw_pc, tw_mark, tw_done, tc_pc, tc_mark, tc_at>>
    /\ UNCHANGED td_asked

\* ThreadDispatcher.close, up to the join: under the lock, __thread_break and
\* __thread_event are set.
TdClose ==
    /\ tc_pc = "open"
    /\ td_break' = TRUE
    /\ td_event' = TRUE
    /\ tc_pc' = "join"
    /\ tc_mark' = td_starts
    /\ tc_at' = td_pc
    /\ UNCHANGED <<td_triggered, td_last, td_now, td_pc, td_set, td_wres, td_deadline,
                   td_starts, td_done, td_since, td_gap_ok, tw_pc, tw_mark, tw_done>>
    /\ UNCHANGED td_asked

\* Fault variant: close returns without joining the thread.
TdCloseReturnsAtOnce ==
    /\ tc_pc = "join"
    /\ tc_pc' = "closed"
    /\ UNCHANGED <<td_event, td_triggered, td_break, td_last, td_now, td_pc, td_set,
                   td_wres, td_deadline, td_starts, td_done, td_since, td_gap_ok, tw_pc,
                   tw_mark, tw_done, tc_mark, tc_at>>
    /\ UNCHANGED td_asked

\* ThreadDispatcher.close: self.__thread.join() returns; __fn is dropped.
TdCloseJoined ==
    /\ tc_pc = "join"
    /\ td_pc = "exited"
    /\ tc_pc' = "closed"
    /\ UNCHANGED <<td_event, td_triggered, td_break, td_last, td_now, td_pc, td_set,
                   td_wres, td_deadline, td_starts, td_done, td_since, td_gap_ok, tw_pc,
                   tw_mark, tw_done, tc_mark, tc_at>>
    /\ UNCHANGED td_asked

\* ======================================================================
\* PublishSubscribe.py: Publisher and Subscription
\* ======================================================================
\* Subscriptions are numbered in the order of subscribex calls.  The publisher
\* holds them weakly; the caller's reference and, while a notification runs,
\* the notification's own list keep a subscription alive.
VARIABLES
    ps_made,        \* number of subscribex calls
    ps_weak,        \* Publisher.__weak_subscriptions, a list of subscription numbers
    ps_closer,      \* ps_closer[s]: Subscription.__closer is set (close has not run)
    ps_held,        \* ps_held[s]: the caller holds a reference to the subscription
    ps_raises,      \* ps_raises[s]: the subscriber's hook raises
    ps_pc,          \* "idle", or "loop" inside __notify_subscribers
    ps_snap,        \* the list `subscriptions` of the running notification
    ps_idx,         \* the position of its loop
    ps_notes,       \* number of notifications begun
    ps_got,         \* subscriptions whose subscriber the running or last notification invoked
    ps_open,        \* subscriptions open and held from the start of that notification on
    ps_late,        \* subscriptions whose subscriber was invoked after the
                    \* subscription had been closed or dropped by the caller
    ps_reclosed     \* number of close calls on a subscription already closed

psvars == <<ps_made, ps_weak, ps_closer, ps_held, ps_raises, ps_pc, ps_snap, ps_idx,
            ps_notes, ps_got, ps_open, ps_late, ps_reclosed>>

Subscriptions == 1..MaxSubscriptions

PubSubInit ==
    /\ ps_made = 0
    /\ ps_weak = <<>>
    /\ ps_closer = [s \in Subscriptions |-> FALSE]
    /\ ps_held = [s \in Subscriptions |-> FALSE]
    /\ ps_raises = [s \in Subscriptions |-> FALSE]
    /\ ps_pc = "idle"
    /\ ps_snap = <<>>
    /\ ps_idx = 1
    /\ ps_notes = 0
    /\ ps_got = {}
    /\ ps_open = {}
    /\ ps_late = {}
    /\ ps_reclosed = 0

\* The list after the weak reference callbacks of the subscriptions that
\* nothing in `living` keeps alive: Publisher.__unsubscribe removes each.
RECURSIVE Pruned(_, _)
Pruned(weak, living) ==
    IF weak = <<>> THEN <<>>
    ELSE IF Head(weak) \in living
         THEN <<Head(weak)>> \o Pruned(Tail(weak), living)
         ELSE Pruned(Tail(weak), living)

\* Publisher.subscribex
Subscribex(raises) ==
    /\ ps_made < MaxSubscriptions
    /\ ps_made' = ps_made + 1
    /\ ps_weak' = Append(ps_weak, ps_made + 1)
    /\ ps_closer' = [ps_closer EXCEPT ![ps_made + 1] = TRUE]
    /\ ps_held' = [ps_held EXCEPT ![ps_made + 1] = TRUE]
    /\ ps_raises' = [ps_raises EXCEPT ![ps_made + 1] = raises]
    /\ UNCHANGED <<ps_pc, ps_snap, ps_idx, ps_notes, ps_got, ps_open, ps_late, ps_reclosed>>

\* Subscription.close, by a holder of the subscription: the first call
\* removes the weak reference from the list and clears subscriber and closer,
\* a later call does nothing.
SubscriptionClose(s) ==
    /\ s <= ps_made
    /\ ps_held[s]
    /\ IF ps_closer[s]
       THEN /\ ps_weak' = RemoveFirst(ps_weak, s)
            /\ ps_closer' = [ps_closer EXCEPT ![s] = FALSE]
            /\ ps_open' = ps_open \ {s}
            /\ UNCHANGED ps_reclosed
       ELSE /\ ps_reclosed' = ps_reclosed + 1
            /\ ps_reclosed < MaxNotifications
            /\ UNCHANGED <<ps_weak, ps_closer, ps_open>>
    /\ UNCHANGED <<ps_made, ps_held, ps_raises, ps_pc, ps_snap, ps_idx, ps_notes,
                   ps_got, ps_late>>

\* The caller drops its last reference.  The subscription dies, and the
\* callback of its weak reference removes it from the list, unless the list
\* of a running notification still refers to it.
SubscriptionDrop(s) ==
    /\ s <= ps_made
    /\ ps_held[s]
    /\ ps_held' = [ps_held EXCEPT ![s] = FALSE]
    /\ ps_open' = ps_open \ {s}
    /\ ps_weak' = IF ps_pc = "loop" /\ s \in Range(ps_snap)
                  THEN ps_weak ELSE RemoveFirst(ps_weak, s)
    /\ UNCHANGED <<ps_made, ps_closer, ps_raises, ps_pc, ps_snap, ps_idx, ps_notes,
                   ps_got, ps_late, ps_reclosed>>

\* __notify_subscribers: under the mutex, the list of the subscriptions the
\* weak references give.
NotifyBegin ==
    /\ ps_pc = "idle"
    /\ ps_notes < MaxNotifications
    /\ ps_notes' = ps_notes + 1
    /\ ps_snap' = ps_weak
    /\ ps_idx' = 1
    /\ ps_pc' = "loop"
    /\ ps_got' = {}
    /\ ps_open' = {s \in Range(ps_weak) : ps_closer[s] /\ ps_held[s]}
    /\ UNCHANGED <<ps_made, ps_weak, ps_closer, ps_held, ps_raises, ps_late, ps_reclosed>>

\* __notify_subscribers: one pass of the loop.  A closed subscription has
\* subscriber None and is passed over.  A hook that raises ends the loop in
\* the except clause that encloses it.  When the loop ends its list is
\* released and the subscriptions nobody holds die.
NotifyCall ==
    /\ ps_pc = "loop"
    /\ ps_idx <= Len(ps_snap)
    /\ LET s == ps_snap[ps_idx]
           invoked == ps_closer[s]
           ends == (invoked /\ ps_raises[s]) \/ ps_idx = Len(ps_snap)
       IN  /\ ps_got' = IF invoked THEN ps_got \cup {s} ELSE ps_got
           /\ ps_late' = IF invoked /\ ~ps_held[s] THEN ps_late \cup {s} ELSE ps_late
           /\ ps_idx' = ps_idx + 1
           /\ ps_pc' = IF ends THEN "idle" ELSE "loop"
           /\ ps_weak' = IF ends
                         THEN Pruned(ps_weak, {x \in Subscriptions : ps_held[x]})
                         ELSE ps_weak
    /\ UNCHANGED <<ps_made, ps_closer, ps_held, ps_raises, ps_snap, ps_notes, ps_open,
                   ps_reclosed>>

\* __notify_subscribers with no subscription in the list.
NotifyNone ==
    /\ ps_pc = "loop"
    /\ ps_snap = <<>>
    /\ ps_pc' = "idle"
    /\ UNCHANGED <<ps_made, ps_weak, ps_closer, ps_held, ps_raises, ps_snap, ps_idx,
                   ps_notes, ps_got, ps_open, ps_late, ps_reclosed>>

\* ======================================================================
\* PublishSubscribe.py: PublisherSelect and PublisherCache
\* ======================================================================
\* One upstream Publisher with two publishers derived by select, and a
\* publisher derived by cache from the first of them:
\*     s1 = publisher.select(f1); s2 = publisher.select(f2); k = s1.cache()
\* Outside subscribers join the derived publishers; each keeps the list of
\* the values it was delivered.
VARIABLES
    pp_last,        \* pp_last[s]: PublisherSelect.__last_value
    pp_cached,      \* PublisherCache.__cached_value
    pp_log,         \* pp_log[p][n]: the values delivered to subscriber n of p
    pp_pubs,        \* number of upstream notify_next_value calls
    pp_value,       \* the value of the last of them
    pp_joins,       \* number of subscribex calls on derived publishers
    pp_fed,         \* number of values the cache's own subscriber received
    pp_prev,        \* the last of them
    pp_runs,        \* number of runs of equal values among them
    pp_knotes       \* number of notifications the cache sent for them

ppvars == <<pp_last, pp_cached, pp_log, pp_pubs, pp_value, pp_joins, pp_fed, pp_prev,
            pp_runs, pp_knotes>>

SelectPublishers == {"s1", "s2"}
DerivedPublishers == SelectPublishers \cup {"k"}
PubValues == {None, <<5>>, <<6>>}

\* The functions given to select: f1 = lambda v: v and v - 5,
\* f2 = lambda v: v and v * 2.
SelectFn(s, v) ==
    IF v = None THEN None
    ELSE IF s = "s1" THEN <<v[1] - 5>> ELSE <<v[1] * 2>>

PipelineInit ==
    /\ pp_last = [s \in SelectPublishers |-> None]
    /\ pp_cached = None
    /\ pp_log = [p \in DerivedPublishers |-> <<>>]
    /\ pp_pubs = 0
    /\ pp_value = None
    /\ pp_joins = 0
    /\ pp_fed = 0
    /\ pp_prev = None
    /\ pp_runs = 0
    /\ pp_knotes = 0

\* Publisher.notify_next_value with no subscriber given: every subscriber
\* in the list is called.
NotifyNextValue(logs, v) == [n \in DOMAIN logs |-> Append(logs[n], v)]

ReplayToJoinerOnly(logs, v) ==
    [n \in DOMAIN logs |-> IF n = Len(logs) THEN Append(logs[n], v) ELSE logs[n]]

\* The replay in PublisherSelect.subscribex and PublisherCache.subscribex.
ReplayLastValue(logs, v) == NotifyNextValue(logs, v)

\* PublisherCache's next_value: the test that lets a value through.
CachePasses(value, cached) == value # cached

\* PublisherCache's next_value, called with `value` by the publisher the
\* cache subscribed to: what it does to the cache and its subscribers.
CacheNextValue(value) ==
    /\ pp_fed' = pp_fed + 1
    /\ pp_prev' = value
    /\ pp_runs' = IF pp_fed = 0 \/ value # pp_prev THEN pp_runs + 1 ELSE pp_runs
    /\ pp_knotes' = IF CachePasses(value, pp_cached) THEN pp_knotes + 1 ELSE pp_knotes
    /\ pp_cached' = IF CachePasses(value, pp_cached) THEN value ELSE pp_cached

\* publisher.notify_next_value(v) upstream: the next_value of each
\* PublisherSelect stores and re-publishes the transformed value; the first
\* one's subscribers include the cache.
Publish(v) ==
    /\ pp_pubs < MaxPublishes
    /\ pp_pubs' = pp_pubs + 1
    /\ pp_value' = v
    /\ pp_last' = [s \in SelectPublishers |-> SelectFn(s, v)]
    /\ CacheNextValue(SelectFn("s1", v))
    /\ pp_log' = [p \in DerivedPublishers |->
                    IF p \in SelectPublishers
                    THEN NotifyNextValue(pp_log[p], SelectFn(p, v))
                    ELSE IF CachePasses(SelectFn("s1", v), pp_cached)
                         THEN NotifyNextValue(pp_log[p], SelectFn("s1", v))
                         ELSE pp_log[p]]
    /\ UNCHANGED pp_joins

\* PublisherSelect.subscribex: the subscriber is added, and a truthy last
\* value is published again.  The cache is among the subscribers of s1.
JoinSelect(s) ==
    /\ pp_joins < MaxJoins
    /\ pp_joins' = pp_joins + 1
    /\ LET joined == Append(pp_log[s], <<>>)
           replay == Truthy(pp_last[s])
           feeds == replay /\ s = "s1"
       IN  /\ IF feeds
              THEN CacheNextValue(pp_last[s])
              ELSE UNCHANGED <<pp_fed, pp_prev, pp_runs, pp_knotes, pp_cached>>
           /\ pp_log' = [p \in DerivedPublishers |->
                           IF p = s
                           THEN IF replay THEN ReplayLastValue(joined, pp_last[s])
                                ELSE joined
                           ELSE IF p = "k" /\ feeds /\ CachePasses(pp_last[s], pp_cached)
                                THEN NotifyNextValue(pp_log[p], pp_last[s])
                                ELSE pp_log[p]]
    /\ UNCHANGED <<pp_last, pp_pubs, pp_value>>

\* PublisherCache.subscribex: the subscriber is added, and a truthy cached
\* value is published again.
JoinCache ==
    /\ pp_joins < MaxJoins
    /\ pp_joins' = pp_joins + 1
    /\ LET joined == Append(pp_log["k"], <<>>)
       IN  pp_log' = [pp_log EXCEPT !["k"] =
                        IF Truthy(pp_cached) THEN ReplayLastValue(joined, pp_cached)
                        ELSE joined]
    /\ UNCHANGED <<pp_last, pp_cached, pp_pubs, pp_value, pp_fed, pp_prev, pp_runs, pp_knotes>>

\* ======================================================================
\* Threading.py: ThreadSafeDict
\* ======================================================================
\* Threads increment one key inside `with d.locked()`: val = d[key], then
\* d[key] = val + 1, once or several times per block.  Another thread reads
\* the key with a plain d[key].  Every method of the dict runs under the
\* dict's RLock, the one locked() returns.
VARIABLES
    sd_data,        \* the value stored under the key
    sd_owner,       \* the thread that owns the RLock, 0 when it is free
    sd_pc,          \* sd_pc[t]: "idle", "wait" (at the with statement), "in"
                    \* (inside the block), "read" (after d[key]), "wrote"
    sd_val,         \* sd_val[t]: the thread's local `val`
    sd_done,        \* sd_done[t]: increments the thread has completed
    sd_reads,       \* number of plain reads by the other thread
    sd_inside,      \* a dict method ran while another thread was inside its block
    sd_contended    \* a thread reached the with statement while another owned the lock

sdvars == <<sd_data, sd_owner, sd_pc, sd_val, sd_done, sd_reads, sd_inside,
            sd_contended>>

DictThreads == 1..MaxDictThreads

SafeDictInit ==
    /\ sd_data = 0
    /\ sd_owner = 0
    /\ sd_pc = [t \in DictThreads |-> "idle"]
    /\ sd_val = [t \in DictThreads |-> 0]
    /\ sd_done = [t \in DictThreads |-> 0]
    /\ sd_reads = 0
    /\ sd_inside = FALSE
    /\ sd_contended = FALSE

LockIgnored(t) == TRUE

\* threading.RLock: a thread acquires it when it is free or its own.
LockAvailable(t) == sd_owner \in {0, t}

\* Some thread other than t is inside its locked block.
OtherInside(t) == \E u \in DictThreads \ {t} : sd_pc[u] \in {"in", "read", "wrote"}

\* A thread arrives at `with d.locked():`.
LockedRequest(t) ==
    /\ sd_pc[t] = "idle"
    /\ sd_done[t] < MaxIncrements
    /\ sd_pc' = [sd_pc EXCEPT ![t] = "wait"]
    /\ sd_contended' = (sd_contended \/ sd_owner \notin {0, t})
    /\ UNCHANGED <<sd_data, sd_owner, sd_val, sd_done, sd_reads, sd_inside>>

\* The with statement acquires the lock locked() returned.
LockedEnter(t) ==
    /\ sd_pc[t] = "wait"
    /\ LockAvailable(t)
    /\ sd_owner' = t
    /\ sd_pc' = [sd_pc EXCEPT ![t] = "in"]
    /\ UNCHANGED <<sd_data, sd_val, sd_done, sd_reads, sd_inside, sd_contended>>

\* val = d[key] inside the block: __getitem__ takes the lock again.
GetItem(t) ==
    /\ sd_pc[t] = "in"
    /\ LockAvailable(t)
    /\ sd_val' = [sd_val EXCEPT ![t] = sd_data]
    /\ sd_pc' = [sd_pc EXCEPT ![t] = "read"]
    /\ sd_inside' = (sd_inside \/ OtherInside(t))
    /\ UNCHANGED <<sd_data, sd_owner, sd_done, sd_reads, sd_contended>>

\* d[key] = val + 1 inside the block: __setitem__ takes the lock again.
SetItem(t) ==
    /\ sd_pc[t] = "read"
    /\ LockAvailable(t)
    /\ sd_data' = sd_val[t] + 1
    /\ sd_pc' = [sd_pc EXCEPT ![t] = "wrote"]
    /\ sd_inside' = (sd_inside \/ OtherInside(t))
    /\ UNCHANGED <<sd_owner, sd_val, sd_done, sd_reads, sd_contended>>

\* The loop inside the block goes round again.
LockedAgain(t) ==
    /\ sd_pc[t] = "wrote"
    /\ sd_done[t] + 1 < MaxIncrements
    /\ sd_done' = [sd_done EXCEPT ![t] = sd_done[t] + 1]
    /\ sd_pc' = [sd_pc EXCEPT ![t] = "in"]
    /\ UNCHANGED <<sd_data, sd_owner, sd_val, sd_reads, sd_inside, sd_contended>>

\* The block ends and the with statement releases the lock.
LockedExit(t) ==
    /\ sd_pc[t] = "wrote"
    /\ sd_done' = [sd_done EXCEPT ![t] = sd_done[t] + 1]
    /\ sd_pc' = [sd_pc EXCEPT ![t] = "idle"]
    /\ sd_owner' = IF sd_owner = t THEN 0 ELSE sd_owner
    /\ UNCHANGED <<sd_data, sd_val, sd_reads, sd_inside, sd_contended>>

\* d[key] by a thread that is in no locked block: __getitem__ takes the
\* lock, reads and releases it.
PlainGet ==
    /\ sd_reads < MaxReads
    /\ LockAvailable(0)
    /\ sd_reads' = sd_reads + 1
    /\ sd_inside' = (sd_inside \/ OtherInside(0))
    /\ UNCHANGED <<sd_data, sd_owner, sd_pc, sd_val, sd_done, sd_contended>>

\* ======================================================================
\* Stream.py: about_to_delete of the stream operators, step by step
\* ======================================================================
\* One operator node at a time over sources 1 and 2.  A "map" node stands
\* for the operators with one source (MapStream, DebounceStream,
\* SampleStream, OptionalStream): source 1.  A "combine" node is a
\* CombineLatestStream over sources 1 and 2.  A "concat" node is a
\* ConcatStream with source 1 as its stream and source 2 as its out_stream.
VARIABLES
    ad_kind,        \* the kind of the node, "none" when there is no node
    ad_rc,          \* the node's reference count
    ad_open,        \* the sources on which the node holds an open listener
    ad_held,        \* the sources of which the node holds a reference
    ad_src_rc,      \* ad_src_rc[s]: the reference count of source s
    ad_pc,          \* 0, or the position of about_to_delete in its steps
    ad_built,       \* number of nodes built
    ad_calls,       \* calls of the node's handlers by the sources' events
    ad_early,       \* a remove_ref on a source happened while the node still
                    \* held an open listener
    ad_during       \* a handler of the node was called while about_to_delete ran

advars == <<ad_kind, ad_rc, ad_open, ad_held, ad_src_rc, ad_pc, ad_built, ad_calls,
            ad_early, ad_during>>

NodeKinds == {"map", "combine", "concat"}
NodeSources(kind) == IF kind = "map" THEN {1} ELSE {1, 2}

TeardownInit ==
    /\ ad_kind = "none"
    /\ ad_rc = 0
    /\ ad_open = {}
    /\ ad_held = {}
    /\ ad_src_rc = [s \in {1, 2} |-> 0]
    /\ ad_pc = 0
    /\ ad_built = 0
    /\ ad_calls = 0
    /\ ad_early = FALSE
    /\ ad_during = FALSE

\* The statements of about_to_delete that close a listener or release a
\* reference, in the order in which the method executes them.
AboutToDeleteSteps(kind) ==
    IF kind = "map" THEN <<<<"close", 1>>, <<"remove_ref", 1>>>>
    ELSE IF kind = "combine"
    THEN <<<<"close", 1>>, <<"remove_ref", 1>>, <<"close", 2>>, <<"remove_ref", 2>>>>
    ELSE <<<<"close", 2>>, <<"remove_ref", 2>>, <<"close", 1>>, <<"remove_ref", 1>>>>

\* The constructor: add_ref on each source and a listener on each one's
\* value_stream; the creator takes a reference to the node.  The sources in
\* `others` are also referenced by somebody else.
BuildNode(kind, others) ==
    /\ ad_kind = "none"
    /\ ad_built < MaxNodes
    /\ others \subseteq NodeSources(kind)
    /\ ad_built' = ad_built + 1
    /\ ad_kind' = kind
    /\ ad_rc' = 1
    /\ ad_open' = NodeSources(kind)
    /\ ad_held' = NodeSources(kind)
    /\ ad_src_rc' = [s \in {1, 2} |->
                       IF s \in NodeSources(kind)
                       THEN (IF s \in others THEN 2 ELSE 1) ELSE 0]
    /\ UNCHANGED <<ad_pc, ad_calls, ad_early, ad_during>>

\* add_ref on the node.
NodeAddRef ==
    /\ ad_kind # "none"
    /\ ad_pc = 0
    /\ ad_rc < MaxNodes
    /\ ad_rc' = ad_rc + 1
    /\ UNCHANGED <<ad_kind, ad_open, ad_held, ad_src_rc, ad_pc, ad_built, ad_calls,
                   ad_early, ad_during>>

\* remove_ref on the node: at zero, about_to_delete begins.
NodeRemoveRef ==
    /\ ad_kind # "none"
    /\ ad_pc = 0
    /\ ad_rc > 0
    /\ ad_rc' = ad_rc - 1
    /\ ad_pc' = IF ad_rc = 1 THEN 1 ELSE 0
    /\ UNCHANGED <<ad_kind, ad_open, ad_held, ad_src_rc, ad_built, ad_calls,
                   ad_early, ad_during>>

\* about_to_delete: its next statement, the close of a listener or the
\* remove_ref on a source.  After the last one the node is gone.
AboutToDeleteStep ==
    /\ ad_pc > 0
    /\ LET steps == AboutToDeleteSteps(ad_kind)
           op == steps[ad_pc][1]
           s == steps[ad_pc][2]
           last == ad_pc = Len(steps)
       IN  /\ IF op = "close"
              THEN /\ ad_open' = ad_open \ {s}
                   /\ UNCHANGED <<ad_held, ad_src_rc, ad_early>>
              ELSE /\ ad_held' = ad_held \ {s}
                   /\ ad_src_rc' = [ad_src_rc EXCEPT ![s] = ad_src_rc[s] - 1]
                   /\ ad_early' = (ad_early \/ ad_open # {})
                   /\ UNCHANGED ad_open
           /\ ad_pc' = IF last THEN 0 ELSE ad_pc + 1
           /\ ad_kind' = IF last THEN "none" ELSE ad_kind
    /\ UNCHANGED <<ad_rc, ad_built, ad_calls, ad_during>>

\* A source that is still referenced fires its value_stream, from another
\* thread when about_to_delete is running: the node's handler is called if
\* its listener on that source is open.
SourceFires(s) ==
    /\ ad_src_rc[s] > 0
    /\ s \in ad_open
    /\ ad_calls < MaxNodes
    /\ ad_calls' = ad_calls + 1
    /\ ad_during' = (ad_during \/ ad_pc > 0)
    /\ UNCHANGED <<ad_kind, ad_rc, ad_open, ad_held, ad_src_rc, ad_pc, ad_built, ad_early>>

\* ======================================================================
\* Specifications
\* ======================================================================
vars == <<evars, rvars, dvars, tvars, svars, dbvars, smvars, ccvars, ftvars, vcvars, plvars, tdvars, psvars, ppvars, sdvars, advars>>

Init ==
    /\ EventInit
    /\ RefInit
    /\ DispInit
    /\ TaskInit
    /\ StreamInit
    /\ DebounceInit
    /\ SampleInit
    /\ ConcatInit
    /\ FinalizeInit
    /\ ValueChangeInit
    /\ PoolInit
    /\ ThreadDispInit
    /\ PubSubInit
    /\ PipelineInit
    /\ SafeDictInit
    /\ TeardownInit

EventNext ==
    \/ \E fn \in Behaviours, o \in BOOLEAN : Listen(fn, o)
          /\ UNCHANGED <<rvars, dvars, tvars, svars, dbvars, smvars, ccvars, ftvars, vcvars, plvars, tdvars, psvars, ppvars, sdvars, advars>>
    \/ \E l \in Listeners : CloseToken(l)
          /\ UNCHANGED <<rvars, dvars, tvars, svars, dbvars, smvars, ccvars, ftvars, vcvars, plvars, tdvars, psvars, ppvars, sdvars, advars>>
    \/ \E l \in Listeners : DropToken(l)
          /\ UNCHANGED <<rvars, dvars, tvars, svars, dbvars, smvars, ccvars, ftvars, vcvars, plvars, tdvars, psvars, ppvars, sdvars, advars>>
    \/ \E l \in Listeners : OwnerGone(l)
          /\ UNCHANGED <<rvars, dvars, tvars, svars, dbvars, smvars, ccvars, ftvars, vcvars, plvars, tdvars, psvars, ppvars, sdvars, advars>>
    \/ \E l \in Listeners : RemoveListener(l)
          /\ UNCHANGED <<rvars, dvars, tvars, svars, dbvars, smvars, ccvars, ftvars, vcvars, plvars, tdvars, psvars, ppvars, sdvars, advars>>
    \/ \E m \in Modes : FireSnapshot(m)
          /\ UNCHANGED <<rvars, dvars, tvars, svars, dbvars, smvars, ccvars, ftvars, vcvars, plvars, tdvars, psvars, ppvars, sdvars, advars>>
    \/ FireLoad
          /\ UNCHANGED <<rvars, dvars, tvars, svars, dbvars, smvars, ccvars, ftvars, vcvars, plvars, tdvars, psvars, ppvars, sdvars, advars>>
    \/ FireCallVoid
          /\ UNCHANGED <<rvars, dvars, tvars, svars, dbvars, smvars, ccvars, ftvars, vcvars, plvars, tdvars, psvars, ppvars, sdvars, advars>>
    \/ FireCallFn
          /\ UNCHANGED <<rvars, dvars, tvars, svars, dbvars, smvars, ccvars, ftvars, vcvars, plvars, tdvars, psvars, ppvars, sdvars, advars>>
    \/ FireExhaust
          /\ UNCHANGED <<rvars, dvars, tvars, svars, dbvars, smvars, ccvars, ftvars, vcvars, plvars, tdvars, psvars, ppvars, sdvars, advars>>

RefNext ==
    \/ AddRef
          /\ UNCHANGED <<evars, dvars, tvars, svars, dbvars, smvars, ccvars, ftvars, vcvars, plvars, tdvars, psvars, ppvars, sdvars, advars>>
    \/ \E c \in BOOLEAN : RemoveRef(c)
          /\ UNCHANGED <<evars, dvars, tvars, svars, dbvars, smvars, ccvars, ftvars, vcvars, plvars, tdvars, psvars, ppvars, sdvars, advars>>
    \/ \E c \in BOOLEAN : RemoveRefAtZero(c)
          /\ UNCHANGED <<evars, dvars, tvars, svars, dbvars, smvars, ccvars, ftvars, vcvars, plvars, tdvars, psvars, ppvars, sdvars, advars>>

DispNext ==
    \/ Dispatch
          /\ UNCHANGED <<evars, rvars, tvars, svars, dbvars, smvars, ccvars, ftvars, vcvars, plvars, tdvars, psvars, ppvars, sdvars, advars>>
    \/ Close
          /\ UNCHANGED <<evars, rvars, tvars, svars, dbvars, smvars, ccvars, ftvars, vcvars, plvars, tdvars, psvars, ppvars, sdvars, advars>>
    \/ \E t \in Tasks : TaskWait(t)
          /\ UNCHANGED <<evars, rvars, tvars, svars, dbvars, smvars, ccvars, ftvars, vcvars, plvars, tdvars, psvars, ppvars, sdvars, advars>>
    \/ \E t \in Tasks : TaskStart(t)
          /\ UNCHANGED <<evars, rvars, tvars, svars, dbvars, smvars, ccvars, ftvars, vcvars, plvars, tdvars, psvars, ppvars, sdvars, advars>>
    \/ \E t \in Tasks, how \in {"normal", "raise"} : TaskFnEnds(t, how)
          /\ UNCHANGED <<evars, rvars, tvars, svars, dbvars, smvars, ccvars, ftvars, vcvars, plvars, tdvars, psvars, ppvars, sdvars, advars>>
    \/ \E t \in Tasks : TaskFinally(t)
          /\ UNCHANGED <<evars, rvars, tvars, svars, dbvars, smvars, ccvars, ftvars, vcvars, plvars, tdvars, psvars, ppvars, sdvars, advars>>
    \/ FinalizeBegin
          /\ UNCHANGED <<evars, rvars, tvars, svars, dbvars, smvars, ccvars, ftvars, vcvars, plvars, tdvars, psvars, ppvars, sdvars, advars>>
    \/ FinalizeWait
          /\ UNCHANGED <<evars, rvars, tvars, svars, dbvars, smvars, ccvars, ftvars, vcvars, plvars, tdvars, psvars, ppvars, sdvars, advars>>

TaskNext ==
    \/ \E w \in Workers, t \in PoolTasks, c \in {"execute", "cancel"} : TaskCall(w, t, c)
          /\ UNCHANGED <<evars, rvars, dvars, svars, dbvars, smvars, ccvars, ftvars, vcvars, plvars, tdvars, psvars, ppvars, sdvars, advars>>
    \/ \E w \in Workers : ExecuteLocked(w)
          /\ UNCHANGED <<evars, rvars, dvars, svars, dbvars, smvars, ccvars, ftvars, vcvars, plvars, tdvars, psvars, ppvars, sdvars, advars>>
    \/ \E w \in Workers, how \in {"normal", "raise"} : ExecuteFnEnds(w, how)
          /\ UNCHANGED <<evars, rvars, dvars, svars, dbvars, smvars, ccvars, ftvars, vcvars, plvars, tdvars, psvars, ppvars, sdvars, advars>>
    \/ \E w \in Workers : CancelLocked(w)
          /\ UNCHANGED <<evars, rvars, dvars, svars, dbvars, smvars, ccvars, ftvars, vcvars, plvars, tdvars, psvars, ppvars, sdvars, advars>>
    \/ \E w \in Workers : FinishedFnReturns(w)
          /\ UNCHANGED <<evars, rvars, dvars, svars, dbvars, smvars, ccvars, ftvars, vcvars, plvars, tdvars, psvars, ppvars, sdvars, advars>>
    \/ \E w \in Workers, u \in PoolTasks : NestedCancel(w, u)
          /\ UNCHANGED <<evars, rvars, dvars, svars, dbvars, smvars, ccvars, ftvars, vcvars, plvars, tdvars, psvars, ppvars, sdvars, advars>>
    \/ \E w \in Workers : NestedCancelLocked(w)
          /\ UNCHANGED <<evars, rvars, dvars, svars, dbvars, smvars, ccvars, ftvars, vcvars, plvars, tdvars, psvars, ppvars, sdvars, advars>>
    \/ \E w \in Workers : NestedFinishedFnReturns(w)
          /\ UNCHANGED <<evars, rvars, dvars, svars, dbvars, smvars, ccvars, ftvars, vcvars, plvars, tdvars, psvars, ppvars, sdvars, advars>>

StreamNext ==
    \/ \E s \in Sources, v \in Values : SetValue(s, v)
          /\ UNCHANGED <<evars, rvars, dvars, tvars, dbvars, smvars, ccvars, ftvars, vcvars, plvars, tdvars, psvars, ppvars, sdvars, advars>>
    \/ \E s \in Sources, v \in Values : SendValue(s, v)
          /\ UNCHANGED <<evars, rvars, dvars, tvars, dbvars, smvars, ccvars, ftvars, vcvars, plvars, tdvars, psvars, ppvars, sdvars, advars>>
    \/ BuildCombine
          /\ UNCHANGED <<evars, rvars, dvars, tvars, dbvars, smvars, ccvars, ftvars, vcvars, plvars, tdvars, psvars, ppvars, sdvars, advars>>
    \/ BuildMap
          /\ UNCHANGED <<evars, rvars, dvars, tvars, dbvars, smvars, ccvars, ftvars, vcvars, plvars, tdvars, psvars, ppvars, sdvars, advars>>
    \/ BuildOptional
          /\ UNCHANGED <<evars, rvars, dvars, tvars, dbvars, smvars, ccvars, ftvars, vcvars, plvars, tdvars, psvars, ppvars, sdvars, advars>>

StreamRefNext ==
    \/ \E n \in Owned : AddRefNode(n)
          /\ UNCHANGED <<evars, rvars, dvars, tvars, dbvars, smvars, ccvars, ftvars, vcvars, plvars, tdvars, psvars, ppvars, sdvars, advars>>
    \/ \E n \in Owned : RemoveRefNode(n)
          /\ UNCHANGED <<evars, rvars, dvars, tvars, dbvars, smvars, ccvars, ftvars, vcvars, plvars, tdvars, psvars, ppvars, sdvars, advars>>
    \/ \E s \in Sources, v \in Values : SetValue(s, v)
          /\ UNCHANGED <<evars, rvars, dvars, tvars, dbvars, smvars, ccvars, ftvars, vcvars, plvars, tdvars, psvars, ppvars, sdvars, advars>>
    \/ BuildCombine
          /\ UNCHANGED <<evars, rvars, dvars, tvars, dbvars, smvars, ccvars, ftvars, vcvars, plvars, tdvars, psvars, ppvars, sdvars, advars>>
    \/ BuildMap
          /\ UNCHANGED <<evars, rvars, dvars, tvars, dbvars, smvars, ccvars, ftvars, vcvars, plvars, tdvars, psvars, ppvars, sdvars, advars>>
    \/ BuildOptional
          /\ UNCHANGED <<evars, rvars, dvars, tvars, dbvars, smvars, ccvars, ftvars, vcvars, plvars, tdvars, psvars, ppvars, sdvars, advars>>

DebounceNext ==
    \/ DebounceTick
          /\ UNCHANGED <<evars, rvars, dvars, tvars, svars, smvars, ccvars, ftvars, vcvars, plvars, tdvars, psvars, ppvars, sdvars, advars>>
    \/ \E v \in Values : DebounceUpdate(v)
          /\ UNCHANGED <<evars, rvars, dvars, tvars, svars, smvars, ccvars, ftvars, vcvars, plvars, tdvars, psvars, ppvars, sdvars, advars>>
    \/ DebounceTimerFires
          /\ UNCHANGED <<evars, rvars, dvars, tvars, svars, smvars, ccvars, ftvars, vcvars, plvars, tdvars, psvars, ppvars, sdvars, advars>>
    \/ DebounceTaskDone
          /\ UNCHANGED <<evars, rvars, dvars, tvars, svars, smvars, ccvars, ftvars, vcvars, plvars, tdvars, psvars, ppvars, sdvars, advars>>

SampleNext ==
    \/ SampleTick
          /\ UNCHANGED <<evars, rvars, dvars, tvars, svars, dbvars, ccvars, ftvars, vcvars, plvars, tdvars, psvars, ppvars, sdvars, advars>>
    \/ \E v \in Values : SampleUpdate(v)
          /\ UNCHANGED <<evars, rvars, dvars, tvars, svars, dbvars, ccvars, ftvars, vcvars, plvars, tdvars, psvars, ppvars, sdvars, advars>>
    \/ SampleWake
          /\ UNCHANGED <<evars, rvars, dvars, tvars, svars, dbvars, ccvars, ftvars, vcvars, plvars, tdvars, psvars, ppvars, sdvars, advars>>

ConcatNext ==
    \/ \E item \in Items : ConcatStreamChangedFalsy(item)
          /\ UNCHANGED <<evars, rvars, dvars, tvars, svars, dbvars, smvars, ftvars, vcvars, plvars, tdvars, psvars, ppvars, sdvars, advars>>
    \/ \E item \in Items : ConcatStreamChanged(item)
          /\ UNCHANGED <<evars, rvars, dvars, tvars, svars, dbvars, smvars, ftvars, vcvars, plvars, tdvars, psvars, ppvars, sdvars, advars>>
    \/ \E d \in Downstreams, v \in Values : DownstreamSetValue(d, v)
          /\ UNCHANGED <<evars, rvars, dvars, tvars, svars, dbvars, smvars, ftvars, vcvars, plvars, tdvars, psvars, ppvars, sdvars, advars>>
    \/ ConcatAboutToDelete
          /\ UNCHANGED <<evars, rvars, dvars, tvars, svars, dbvars, smvars, ftvars, vcvars, plvars, tdvars, psvars, ppvars, sdvars, advars>>

FinalizeNext ==
    \/ BuildDebounce
          /\ UNCHANGED <<evars, rvars, dvars, tvars, svars, dbvars, smvars, ccvars, vcvars, plvars, tdvars, psvars, ppvars, sdvars, advars>>
    \/ BuildSample
          /\ UNCHANGED <<evars, rvars, dvars, tvars, svars, dbvars, smvars, ccvars, vcvars, plvars, tdvars, psvars, ppvars, sdvars, advars>>
    \/ TimedValueChanged
          /\ UNCHANGED <<evars, rvars, dvars, tvars, svars, dbvars, smvars, ccvars, vcvars, plvars, tdvars, psvars, ppvars, sdvars, advars>>
    \/ SleepExpires
          /\ UNCHANGED <<evars, rvars, dvars, tvars, svars, dbvars, smvars, ccvars, vcvars, plvars, tdvars, psvars, ppvars, sdvars, advars>>
    \/ \E fin \in BOOLEAN : Resume(fin)
          /\ UNCHANGED <<evars, rvars, dvars, tvars, svars, dbvars, smvars, ccvars, vcvars, plvars, tdvars, psvars, ppvars, sdvars, advars>>
    \/ ZeroTask
          /\ UNCHANGED <<evars, rvars, dvars, tvars, svars, dbvars, smvars, ccvars, vcvars, plvars, tdvars, psvars, ppvars, sdvars, advars>>
    \/ TimedAboutToDelete
          /\ UNCHANGED <<evars, rvars, dvars, tvars, svars, dbvars, smvars, ccvars, vcvars, plvars, tdvars, psvars, ppvars, sdvars, advars>>

ValueChangeNext ==
    \/ ValueChangeBegin
          /\ UNCHANGED <<evars, rvars, dvars, tvars, svars, dbvars, smvars, ccvars, ftvars, plvars, tdvars, psvars, ppvars, sdvars, advars>>
    \/ ValueChangeEnd
          /\ UNCHANGED <<evars, rvars, dvars, tvars, svars, dbvars, smvars, ccvars, ftvars, plvars, tdvars, psvars, ppvars, sdvars, advars>>
    \/ \E v \in Values : ValueChangeWrappedSet(v)
          /\ UNCHANGED <<evars, rvars, dvars, tvars, svars, dbvars, smvars, ccvars, ftvars, plvars, tdvars, psvars, ppvars, sdvars, advars>>

PoolNext ==
    \/ QueueFn
          /\ UNCHANGED <<evars, rvars, dvars, tvars, svars, dbvars, smvars, ccvars, ftvars, vcvars, tdvars, psvars, ppvars, sdvars, advars>>
    \/ \E w \in PoolThreads : ThreadGet(w)
          /\ UNCHANGED <<evars, rvars, dvars, tvars, svars, dbvars, smvars, ccvars, ftvars, vcvars, tdvars, psvars, ppvars, sdvars, advars>>
    \/ \E w \in PoolThreads : ThreadCheck(w)
          /\ UNCHANGED <<evars, rvars, dvars, tvars, svars, dbvars, smvars, ccvars, ftvars, vcvars, tdvars, psvars, ppvars, sdvars, advars>>
    \/ \E w \in PoolThreads : ThreadExecuteLocked(w)
          /\ UNCHANGED <<evars, rvars, dvars, tvars, svars, dbvars, smvars, ccvars, ftvars, vcvars, tdvars, psvars, ppvars, sdvars, advars>>
    \/ \E w \in PoolThreads, how \in {"normal", "raise"} : ThreadFnEnds(w, how)
          /\ UNCHANGED <<evars, rvars, dvars, tvars, svars, dbvars, smvars, ccvars, ftvars, vcvars, tdvars, psvars, ppvars, sdvars, advars>>
    \/ \E w \in PoolThreads : ThreadTaskDone(w)
          /\ UNCHANGED <<evars, rvars, dvars, tvars, svars, dbvars, smvars, ccvars, ftvars, vcvars, tdvars, psvars, ppvars, sdvars, advars>>
    \/ PoolCloseBegin
          /\ UNCHANGED <<evars, rvars, dvars, tvars, svars, dbvars, smvars, ccvars, ftvars, vcvars, tdvars, psvars, ppvars, sdvars, advars>>
    \/ PoolCancelLocked
          /\ UNCHANGED <<evars, rvars, dvars, tvars, svars, dbvars, smvars, ccvars, ftvars, vcvars, tdvars, psvars, ppvars, sdvars, advars>>
    \/ PoolCloseSignal
          /\ UNCHANGED <<evars, rvars, dvars, tvars, svars, dbvars, smvars, ccvars, ftvars, vcvars, tdvars, psvars, ppvars, sdvars, advars>>
    \/ PoolCloseJoined
          /\ UNCHANGED <<evars, rvars, dvars, tvars, svars, dbvars, smvars, ccvars, ftvars, vcvars, tdvars, psvars, ppvars, sdvars, advars>>

ThreadDispNext ==
    \/ TdTick
          /\ UNCHANGED <<evars, rvars, dvars, tvars, svars, dbvars, smvars, ccvars, ftvars, vcvars, plvars, psvars, ppvars, sdvars, advars>>
    \/ Trigger
          /\ UNCHANGED <<evars, rvars, dvars, tvars, svars, dbvars, smvars, ccvars, ftvars, vcvars, plvars, psvars, ppvars, sdvars, advars>>
    \/ TriggerWait
          /\ UNCHANGED <<evars, rvars, dvars, tvars, svars, dbvars, smvars, ccvars, ftvars, vcvars, plvars, psvars, ppvars, sdvars, advars>>
    \/ TriggerWaitReturns
          /\ UNCHANGED <<evars, rvars, dvars, tvars, svars, dbvars, smvars, ccvars, ftvars, vcvars, plvars, psvars, ppvars, sdvars, advars>>
    \/ ProcessWaitReturns
          /\ UNCHANGED <<evars, rvars, dvars, tvars, svars, dbvars, smvars, ccvars, ftvars, vcvars, plvars, psvars, ppvars, sdvars, advars>>
    \/ ProcessClear
          /\ UNCHANGED <<evars, rvars, dvars, tvars, svars, dbvars, smvars, ccvars, ftvars, vcvars, plvars, psvars, ppvars, sdvars, advars>>
    \/ ProcessInner
          /\ UNCHANGED <<evars, rvars, dvars, tvars, svars, dbvars, smvars, ccvars, ftvars, vcvars, plvars, psvars, ppvars, sdvars, advars>>
    \/ ProcessInnerWaitReturns
          /\ UNCHANGED <<evars, rvars, dvars, tvars, svars, dbvars, smvars, ccvars, ftvars, vcvars, plvars, psvars, ppvars, sdvars, advars>>
    \/ ProcessInnerClear
          /\ UNCHANGED <<evars, rvars, dvars, tvars, svars, dbvars, smvars, ccvars, ftvars, vcvars, plvars, psvars, ppvars, sdvars, advars>>
    \/ ProcessPost
          /\ UNCHANGED <<evars, rvars, dvars, tvars, svars, dbvars, smvars, ccvars, ftvars, vcvars, plvars, psvars, ppvars, sdvars, advars>>
    \/ ProcessCall
          /\ UNCHANGED <<evars, rvars, dvars, tvars, svars, dbvars, smvars, ccvars, ftvars, vcvars, plvars, psvars, ppvars, sdvars, advars>>
    \/ \E how \in {"normal", "raise"} : ProcessFnEnds(how)
          /\ UNCHANGED <<evars, rvars, dvars, tvars, svars, dbvars, smvars, ccvars, ftvars, vcvars, plvars, psvars, ppvars, sdvars, advars>>
    \/ TdClose
          /\ UNCHANGED <<evars, rvars, dvars, tvars, svars, dbvars, smvars, ccvars, ftvars, vcvars, plvars, psvars, ppvars, sdvars, advars>>
    \/ TdCloseJoined
          /\ UNCHANGED <<evars, rvars, dvars, tvars, svars, dbvars, smvars, ccvars, ftvars, vcvars, plvars, psvars, ppvars, sdvars, advars>>

PubSubNext ==
    \/ \E raises \in BOOLEAN : Subscribex(raises)
          /\ UNCHANGED <<evars, rvars, dvars, tvars, svars, dbvars, smvars, ccvars, ftvars, vcvars, plvars, tdvars, ppvars, sdvars, advars>>
    \/ \E s \in Subscriptions : SubscriptionClose(s)
          /\ UNCHANGED <<evars, rvars, dvars, tvars, svars, dbvars, smvars, ccvars, ftvars, vcvars, plvars, tdvars, ppvars, sdvars, advars>>
    \/ \E s \in Subscriptions : SubscriptionDrop(s)
          /\ UNCHANGED <<evars, rvars, dvars, tvars, svars, dbvars, smvars, ccvars, ftvars, vcvars, plvars, tdvars, ppvars, sdvars, advars>>
    \/ NotifyBegin
          /\ UNCHANGED <<evars, rvars, dvars, tvars, svars, dbvars, smvars, ccvars, ftvars, vcvars, plvars, tdvars, ppvars, sdvars, advars>>
    \/ NotifyCall
          /\ UNCHANGED <<evars, rvars, dvars, tvars, svars, dbvars, smvars, ccvars, ftvars, vcvars, plvars, tdvars, ppvars, sdvars, advars>>
    \/ NotifyNone
          /\ UNCHANGED <<evars, rvars, dvars, tvars, svars, dbvars, smvars, ccvars, ftvars, vcvars, plvars, tdvars, ppvars, sdvars, advars>>

PipelineNext ==
    \/ \E v \in PubValues : Publish(v)
          /\ UNCHANGED <<evars, rvars, dvars, tvars, svars, dbvars, smvars, ccvars, ftvars, vcvars, plvars, tdvars, psvars, sdvars, advars>>
    \/ \E s \in SelectPublishers : JoinSelect(s)
          /\ UNCHANGED <<evars, rvars, dvars, tvars, svars, dbvars, smvars, ccvars, ftvars, vcvars, plvars, tdvars, psvars, sdvars, advars>>
    \/ JoinCache
          /\ UNCHANGED <<evars, rvars, dvars, tvars, svars, dbvars, smvars, ccvars, ftvars, vcvars, plvars, tdvars, psvars, sdvars, advars>>

SafeDictNext ==
    \/ \E t \in DictThreads : LockedRequest(t)
          /\ UNCHANGED <<evars, rvars, dvars, tvars, svars, dbvars, smvars, ccvars, ftvars, vcvars, plvars, tdvars, psvars, ppvars, advars>>
    \/ \E t \in DictThreads : LockedEnter(t)
          /\ UNCHANGED <<evars, rvars, dvars, tvars, svars, dbvars, smvars, ccvars, ftvars, vcvars, plvars, tdvars, psvars, ppvars, advars>>
    \/ \E t \in DictThreads : GetItem(t)
          /\ UNCHANGED <<evars, rvars, dvars, tvars, svars, dbvars, smvars, ccvars, ftvars, vcvars, plvars, tdvars, psvars, ppvars, advars>>
    \/ \E t \in DictThreads : SetItem(t)
          /\ UNCHANGED <<evars, rvars, dvars, tvars, svars, dbvars, smvars, ccvars, ftvars, vcvars, plvars, tdvars, psvars, ppvars, advars>>
    \/ \E t \in DictThreads : LockedAgain(t)
          /\ UNCHANGED <<evars, rvars, dvars, tvars, svars, dbvars, smvars, ccvars, ftvars, vcvars, plvars, tdvars, psvars, ppvars, advars>>
    \/ \E t \in DictThreads : LockedExit(t)
          /\ UNCHANGED <<evars, rvars, dvars, tvars, svars, dbvars, smvars, ccvars, ftvars, vcvars, plvars, tdvars, psvars, ppvars, advars>>
    \/ PlainGet
          /\ UNCHANGED <<evars, rvars, dvars, tvars, svars, dbvars, smvars, ccvars, ftvars, vcvars, plvars, tdvars, psvars, ppvars, advars>>

TeardownNext ==
    \/ \E kind \in NodeKinds, others \in SUBSET {1, 2} : BuildNode(kind, others)
          /\ UNCHANGED <<evars, rvars, dvars, tvars, svars, dbvars, smvars, ccvars, ftvars, vcvars, plvars, tdvars, psvars, ppvars, sdvars>>
    \/ NodeAddRef
          /\ UNCHANGED <<evars, rvars, dvars, tvars, svars, dbvars, smvars, ccvars, ftvars, vcvars, plvars, tdvars, psvars, ppvars, sdvars>>
    \/ NodeRemoveRef
          /\ UNCHANGED <<evars, rvars, dvars, tvars, svars, dbvars, smvars, ccvars, ftvars, vcvars, plvars, tdvars, psvars, ppvars, sdvars>>
    \/ AboutToDeleteStep
          /\ UNCHANGED <<evars, rvars, dvars, tvars, svars, dbvars, smvars, ccvars, ftvars, vcvars, plvars, tdvars, psvars, ppvars, sdvars>>
    \/ \E s \in {1, 2} : SourceFires(s)
          /\ UNCHANGED <<evars, rvars, dvars, tvars, svars, dbvars, smvars, ccvars, ftvars, vcvars, plvars, tdvars, psvars, ppvars, sdvars>>

DebounceLiveNext ==
    \/ DebounceTick
          /\ UNCHANGED <<evars, rvars, dvars, tvars, svars, smvars, ccvars, ftvars, vcvars, plvars, tdvars, psvars, ppvars, sdvars, advars>>
    \/ \E v \in Values : DebounceUpdate(v) /\ db_now + Period <= MaxTime
          /\ UNCHANGED <<evars, rvars, dvars, tvars, svars, smvars, ccvars, ftvars, vcvars, plvars, tdvars, psvars, ppvars, sdvars, advars>>
    \/ DebounceTimerFires
          /\ UNCHANGED <<evars, rvars, dvars, tvars, svars, smvars, ccvars, ftvars, vcvars, plvars, tdvars, psvars, ppvars, sdvars, advars>>
    \/ DebounceTaskDone
          /\ UNCHANGED <<evars, rvars, dvars, tvars, svars, smvars, ccvars, ftvars, vcvars, plvars, tdvars, psvars, ppvars, sdvars, advars>>

Next ==
    \/ EventNext
    \/ RefNext
    \/ DispNext
    \/ TaskNext
    \/ StreamNext
    \/ StreamRefNext
    \/ DebounceNext
    \/ SampleNext
    \/ ConcatNext
    \/ FinalizeNext
    \/ ValueChangeNext
    \/ PoolNext
    \/ ThreadDispNext
    \/ PubSubNext
    \/ PipelineNext
    \/ SafeDictNext
    \/ TeardownNext
    \/ DebounceLiveNext

EventSpec == Init /\ [][EventNext]_vars
RefSpec == Init /\ [][RefNext]_vars
DispSpec == Init /\ [][DispNext]_vars
TaskSpec == Init /\ [][TaskNext]_vars
StreamSpec == Init /\ [][StreamNext]_vars
StreamRefSpec == Init /\ [][StreamRefNext]_vars
DebounceSpec == Init /\ [][DebounceNext]_vars
SampleSpec == Init /\ [][SampleNext]_vars
ConcatSpec == Init /\ [][ConcatNext]_vars
FinalizeSpec == Init /\ [][FinalizeNext]_vars
ValueChangeSpec == Init /\ [][ValueChangeNext]_vars
PoolSpec == Init /\ [][PoolNext]_vars
ThreadDispSpec == Init /\ [][ThreadDispNext]_vars
PubSubSpec == Init /\ [][PubSubNext]_vars
PipelineSpec == Init /\ [][PipelineNext]_vars
SafeDictSpec == Init /\ [][SafeDictNext]_vars
TeardownSpec == Init /\ [][TeardownNext]_vars
DebounceLiveSpec == Init /\ [][DebounceLiveNext]_vars
    /\ WF_dbvars(DebounceTick)
    /\ WF_dbvars(DebounceTimerFires)
    /\ WF_dbvars(DebounceTaskDone)
Spec == Init /\ [][Next]_vars

\* The ThreadDispatcher with threads that keep running: the worker thread
\* and a caller blocked in a wait are scheduled, the clock advances, the
\* target returns or raises, and join returns once the thread has ended.
\* Calls of trigger and close are the callers' choice.
ThreadDispLiveSpec == Init /\ [][ThreadDispNext]_vars
    /\ WF_tdvars(TdTick)
    /\ WF_tdvars(TriggerWaitReturns)
    /\ WF_tdvars(ProcessWaitReturns)
    /\ WF_tdvars(ProcessClear)
    /\ WF_tdvars(ProcessInner)
    /\ WF_tdvars(ProcessInnerWaitReturns)
    /\ WF_tdvars(ProcessInnerClear)
    /\ WF_tdvars(ProcessPost)
    /\ WF_tdvars(ProcessCall)
    /\ WF_tdvars(\E how \in {"normal", "raise"} : ProcessFnEnds(how))
    /\ WF_tdvars(TdCloseJoined)

\* ======================================================================
\* Claims
\* ======================================================================
\* The listeners of the snapshot that were live when it was taken: the weakref
\* gave an object and close had not run.
LiveAtSnapshot == {l \in Range(hsnap) \ {0} : l \notin hclosed}

\* The positions of the snapshot whose listener was live when it was taken.
LiveIdx == {i \in 1..Len(hsnap) : hsnap[i] # 0 /\ hsnap[i] \notin hclosed}

Registered == 1..(nextId - 1)

\* C1: when a fire has returned, the callbacks it invoked are exactly the listeners
\* that were live at its snapshot, less those closed during the iteration before
\* their turn, which are never called.
C1_FiredSetIsSnapshot ==
    (fpc = "done" /\ fmode = "fire") =>
        /\ Range(called) = LiveAtSnapshot \ voided
        /\ Range(called) \cap voided = {}

\* C2 (as claimed): after a balanced sequence of add_ref / remove_ref calls,
\* about_to_delete has run exactly once, in the last remove_ref of the sequence.
Balanced == refOps > 0 /\ ref_count = 0 /\ asserts = 0 /\ ~unchecked

C2_FinalizeInLastRemove ==
    Balanced => (finalized = 1 /\ finalizeOp = refOps)

\* C2 (amended): about_to_delete runs at most once, in the first remove_ref
\* (check=True) that brings the count to zero, and never again when the count
\* later rises and returns to zero; after a balanced sequence it has run once.
C2_FinalizeOnceAtFirstZero ==
    /\ finalized <= 1
    /\ finalizeOp = firstZeroOp
    /\ (finalized = 1) = (firstZeroOp > 0)
    /\ Balanced => finalized = 1

\* A balanced sequence that reached zero twice: about_to_delete ran in the
\* first remove_ref that reached zero, not in the last one.
C2_Witness ==
    Balanced /\ refOps >= 4 /\ finalized = 1 /\ finalizeOp = 2

\* C3: at most one dispatch task is in flight and at most one execution of the
\* work function is in progress; the task in flight is the one dispatch_future
\* names, so a dispatch arriving meanwhile submitted nothing.
C3_SingleFlight ==
    /\ Cardinality(TasksInFlight) <= 1
    /\ Cardinality({t \in Tasks : tpc[t] = "run"}) <= 1
    /\ \A t \in TasksInFlight : dispatch_future = t

\* A second dispatch arrived while the only task was executing fn: it set the
\* pending flag and no second task exists.
C3_Witness ==
    /\ dispatches >= 2
    /\ nextTask = 2
    /\ is_dispatch_pending
    /\ tpc[1] = "run"

\* C4: when k >= 1 further dispatch calls arrived while the first execution was
\* running, and none at any other time, the task does not end (short of
\* cancellation) before fn has been executed exactly twice.
C4_ExactlyTwoRuns ==
    (nextTask > 1 /\ TasksInFlight = {} /\ ~cancel /\ pDuring >= 1 /\ ~pOther)
        => pRuns = 2

\* C5: a task that ended without being cancelled, whether fn raised or not, left
\* the dispatcher idle (the in-flight handle cleared) or followed by a newer
\* task, so that a later dispatch can run fn again.
C5_FailingRunReturnsToIdle ==
    \A t \in Tasks : (tpc[t] = "ended" /\ ~cancel) => dispatch_future # t

\* C6 (as claimed): once close() has returned from a call made while an
\* execution was in flight, cancellation is signalled and no task is in flight.
C6_CloseJoins ==
    closedInFlight => (cancel /\ TasksInFlight = {})

\* C6 (amended): the teardown is the finalizer run when the dispatcher object is
\* collected: once it has returned, no task is in flight (none can start either,
\* since nothing can call dispatch any more), and cancellation was signalled if a
\* task handle was set.
C6_FinalizerJoins ==
    disposed = "done" =>
        /\ TasksInFlight = {}
        /\ finFuture # 0 => cancel

\* The finalizer began while fn was executing and has returned.
C6_Witness ==
    disposed = "done" /\ finSawRun /\ tpc[finFuture] = "ended"

\* C7: a fire that has returned invoked every listener that was live at its turn
\* exactly once, in the order of registration, and no dead one.
C7_EveryLiveListenerInOrder ==
    (fpc = "done" /\ fmode = "fire") =>
        called = SelectSeq(hsnap, LAMBDA l : l # 0 /\ l \notin voided)

\* C8: when a callback raised during fire, every live listener registered after
\* the failing one was still called by that fire.
C8_LaterListenersStillCalled ==
    (fpc = "done" /\ fmode = "fire" /\ fraised # 0) =>
        \A i, j \in 1..Len(hsnap) :
            (hsnap[i] = fraised /\ i < j /\ hsnap[j] # 0 /\ ~closed[hsnap[j]])
                => hsnap[j] \in Range(called)

\* C9: with no callback raising and no token closed during the call, fire_any
\* returns True at the first live listener returning true, having called the live
\* listeners up to it and none after it, and False if there is none; fire_all
\* does the same with false and True exchanged.
Stoppers(b) == {i \in LiveIdx : lfn[hsnap[i]] = b}

First(S) == CHOOSE i \in S : \A j \in S : i <= j

ShortCircuit(b, hit, miss) ==
    IF Stoppers(b) # {}
    THEN /\ fresult = hit
         /\ Range(called) = {hsnap[i] : i \in {j \in LiveIdx : j <= First(Stoppers(b))}}
    ELSE /\ fresult = miss
         /\ Range(called) = LiveAtSnapshot

C9_ShortCircuitResults ==
    (/\ fpc = "done"
     /\ fraised = 0
     /\ \A l \in Range(hsnap) \ {0} : closed[l] => l \in hclosed) =>
        /\ fmode = "any" => ShortCircuit("true", "True", "False")
        /\ fmode = "all" => ShortCircuit("false", "False", "True")

\* C10 (as claimed): a token that was closed while the caller still holds it has
\* no entry in the listener collection any more.
C10_ClosedEntryRemoved ==
    \A l \in Registered : (closed[l] /\ tokenHeld[l]) => l \notin Range(weak_listeners)

\* C10 (amended): closing a token silences its callback for every fire whose
\* snapshot follows the close, but the entry stays in the collection while the
\* listener object is referenced; the object is freed, and its entry then
\* removed by the weakref callback, only when the token, the owner table and
\* every running fire have let go of it.
C10_CloseSilencesDropRemoves ==
    \A l \in Registered :
        /\ alive[l] => l \in Range(weak_listeners)
        /\ l \in hclosed => l \notin Range(called)
        /\ alive[l] = Referenced(l, tokenHeld, owned, snap)
        /\ listener_count = Cardinality(Range(weak_listeners))

\* A closed token still held by the caller: its entry is still counted, and a
\* fire that started after the close has passed it over.
C10_Witness ==
    \E l \in Registered :
        /\ closed[l] /\ tokenHeld[l]
        /\ l \in Range(weak_listeners)
        /\ listener_count >= 1
        /\ fpc = "done" /\ l \in hclosed /\ l \in voided

\* C11: a listener registered with an owner is invoked by every fire (that has
\* returned) during which its owner was alive and its token not closed, whether
\* or not the caller kept the token; a listener that was closed when a fire took
\* its snapshot (by its owner's death or by the caller) is not invoked by it.
C11_OwnedListenerInvokedWhileOwnerLives ==
    (fpc = "done" /\ fmode = "fire") =>
        \A l \in Range(hsnap) \ {0} :
            /\ (owned[l] /\ ~closed[l]) => l \in Range(called)
            /\ l \in hclosed => l \notin Range(called)

\* C13: whatever add_ref and remove_ref calls were made, in whatever order
\* (add_ref after the count returned to zero, remove_ref(check=False) and
\* remove_ref on a count of zero included), ref_count is never negative and
\* about_to_delete has run at most once.
C13_NeverNegativeFinalizeAtMostOnce ==
    /\ ref_count >= 0
    /\ finalized <= 1

\* The count returned to zero, rose again and is back at zero after an
\* unchecked remove_ref and a remove_ref that found the count at zero.
C13_Witness ==
    /\ finalized = 1
    /\ unchecked
    /\ asserts >= 1
    /\ refOps > firstZeroOp + 2
    /\ ref_count = 0

\* C14: a remove_ref call made on a count of zero fails its assertion, leaves
\* ref_count at zero and does not run about_to_delete.
C14_RemoveAtZeroFailsAndChangesNothing ==
    [][(ref_count = 0 /\ refOps' = refOps + 1 /\ ref_count' <= ref_count) =>
          /\ asserts' = asserts + 1
          /\ ref_count' = 0
          /\ finalized' = finalized
          /\ active' = active]_rvars

\* A remove_ref failed on an object that had been finalized before, and one
\* failed on an object that never was: neither ran about_to_delete.
C14_Witness ==
    /\ asserts >= 2
    /\ ref_count = 0
    /\ finalized = 1
    /\ firstZeroOp > 1

\* C12: a thread executing code supplied by the user (here a task function or
\* a finished-callback) owns none of the library's locks, and therefore no two
\* threads wait for each other's lock from inside such code.
LockWanted(w) ==
    IF ipc[w] = "cancel" THEN itask[w]
    ELSE IF wpc[w] \in {"execute", "cancel"} THEN wtask[w]
    ELSE 0

WaitsFor(w, v) == LockWanted(w) # 0 /\ v # w /\ task_lock[LockWanted(w)] = v

C12_NoLockHeldInUserCode ==
    /\ \A w \in Workers : wpc[w] \in UserCode => \A t \in PoolTasks : task_lock[t] # w
    /\ \A w, v \in Workers : ~(WaitsFor(w, v) /\ WaitsFor(v, w))

\* Two task functions that cancel each other's task, run by two threads: each
\* thread owns the lock of its task and waits for the other's.
C12_Deadlock ==
    \E w, v \in Workers : w # v /\ wpc[w] = "fn" /\ wpc[v] = "fn" /\ WaitsFor(w, v) /\ WaitsFor(v, w)

\* C15: an operator node is finalized at most once, in the step in which its
\* reference count reaches zero; its finalize closes the listeners it registered
\* upstream and releases its upstream references once each, without a failed
\* remove_ref; a finalized node never fires again; the reference count of every
\* node is the number of its outside owners plus the number of live operators
\* built on it (so a finalized operator has given back what it took); and an
\* upstream released to zero is finalized in turn.
HoldsRef(n, u) ==
    built[n] /\ node_finalized[n] = 0 /\ u \in Range(Upstreams(n))

C15_State ==
    /\ ~release_failed
    /\ \A n \in Operators :
          /\ node_finalized[n] <= 1
          /\ releases[n] = node_finalized[n]
          /\ node_finalized[n] = 1 => ~listening[n]
          /\ ~fired_dead[n]
    /\ \A u \in Nodes :
          /\ node_rc[u] = node_owners[u] + Cardinality({n \in Operators : HoldsRef(n, u)})
          /\ (node_rc[u] = 0 /\ \E n \in Operators :
                                   releases[n] = 1 /\ u \in Range(Upstreams(n)))
                => node_finalized[u] = 1

C15_Step ==
    \A n \in Nodes :
        /\ (node_rc[n] > 0 /\ node_rc'[n] = 0) => node_finalized'[n] = 1
        /\ node_finalized'[n] > node_finalized[n] => (node_rc[n] > 0 /\ node_rc'[n] = 0)

C15_FinalizeReleasesUpstreams == []C15_State /\ [][C15_Step]_svars

\* M was given up by its only owner: M, C and B are finalized in one step, A is
\* kept by its outside owner with the count it had before C was built, and a
\* later change of A fired nothing downstream.
C15_Witness ==
    /\ node_finalized["M"] = 1 /\ node_finalized["C"] = 1 /\ node_finalized["B"] = 1
    /\ node_finalized["A"] = 0 /\ node_owners["A"] = 1 /\ node_rc["A"] = 1
    /\ fired_now["A"] /\ ~fired_now["C"] /\ ~fired_now["M"]

\* C16: when a listener of an operator is called with the value it was called
\* with the time before (its upstream delivered the same value twice in a row),
\* the operator does not fire its value_stream.
C16_NoFireOnRepeatedValue ==
    \A n \in Operators : dup_in[n] => ~fired_now[n]

\* C17: a node that has fired has, as its value property, the last value it fired.
C17_ValueIsLastFired ==
    \A n \in Nodes : has_fired[n] => ValueOf(n) = last_fired[n]

\* C18: a live CombineLatestStream over (A, B) has, from its construction on and
\* after every source update, the pair (A.value, B.value) as its value; every
\* source change fires that recomputed pair; with the sources at (2, 3) the
\* value is (2, 3), and setting A to 5 makes it (5, 3).
C18_State ==
    (built["C"] /\ listening["C"]) =>
        /\ node_value["C"] = <<node_value["A"][1], node_value["B"][1]>>
        /\ \A s \in Sources :
              fired_now[s] => (fired_now["C"] /\ last_fired["C"] = node_value["C"])

C18_Step ==
    (/\ built["C"] /\ listening["C"]
     /\ node_value["A"] = <<2>> /\ node_value["B"] = <<3>>
     /\ node_value'["A"] = <<5>> /\ node_value'["B"] = <<3>>) =>
        /\ node_value["C"] = <<2, 3>>
        /\ node_value'["C"] = <<5, 3>>
        /\ fired_now'["C"] /\ last_fired'["C"] = <<5, 3>>

C18_CombineLatestValue == []C18_State /\ [][C18_Step]_svars

\* The combined stream was built and the first source then set to 5 beside a
\* second source holding 3: (5, 3) is the value, and it was fired.
C18_Witness ==
    /\ built["C"] /\ listening["C"]
    /\ node_value["C"] = <<5, 3>>
    /\ last_in["C"] = <<<<5>>, None>>
    /\ fired_now["A"] /\ fired_now["C"] /\ last_fired["C"] = <<5, 3>>

\* C19: when three (or more) upstream updates arrived within Period of each
\* other, the first of them at a moment when no timer was pending, and the
\* DebounceStream has come to rest (no timer task), exactly one emission
\* followed the first update of the burst, it carried the value of the last
\* update, and it occurred no earlier than Period after the first update.
FirstUpdateAt == CHOOSE i \in DOMAIN db_log :
                     db_log[i][1] = "update" /\ \A j \in 1..(i - 1) : db_log[j][1] # "update"

BurstEmits == {i \in DOMAIN db_log : i > FirstUpdateAt /\ db_log[i][1] = "emit"}

IsBurst ==
    /\ Len(DebounceUpdates) >= 3
    /\ DebounceUpdates[Len(DebounceUpdates)][2] - DebounceUpdates[1][2] < Period
    /\ DebounceUpdates[1][4] # "sleeping"

C19_BurstGivesOneLateEmission ==
    (IsBurst /\ db_task = "none") =>
        /\ Cardinality(BurstEmits) = 1
        /\ \A i \in BurstEmits :
              /\ db_log[i][3] = DebounceUpdates[Len(DebounceUpdates)][3]
              /\ db_log[i][2] >= DebounceUpdates[1][2] + Period

\* C20: a wake-up of the SampleStream emitted exactly once, the most recent
\* upstream value, if at least one upstream value had arrived since the wake-up
\* before (or since construction), and nothing otherwise, so a value superseded
\* within the period was not emitted; the node emits, and its value property
\* changes, only in a wake-up of sample_loop, which comes no sooner than Period
\* after the one before.
C20_State ==
    /\ sm_woke # <<>> =>
          sm_woke[2] = IF sm_woke[1] = <<>> THEN <<>>
                       ELSE <<sm_woke[1][Len(sm_woke[1])]>>
    /\ sm_dirty = (sm_arrived # <<>>)
    /\ sm_dirty => sm_pending = sm_arrived[Len(sm_arrived)]

C20_Step ==
    (sm_value' # sm_value \/ sm_woke' # sm_woke) =>
        /\ sm_now >= sm_wake
        /\ sm_wake' = sm_now + Period
        /\ sm_woke'[2] \in {<<>>, <<sm_value'>>}
        /\ sm_value' # sm_value => sm_woke'[2] = <<sm_value'>>

C20_EmitsLatestAtWakeUps == []C20_State /\ [][C20_Step]_smvars

\* Two different upstream values arrived within one period: the wake-up that
\* followed emitted the second only, and it is the value of the node.
C20_Witness ==
    /\ sm_woke # <<>>
    /\ Len(sm_woke[1]) >= 2
    /\ sm_woke[1][1] # sm_woke[1][Len(sm_woke[1])]
    /\ sm_woke[2] = <<sm_woke[1][Len(sm_woke[1])]>>
    /\ sm_value = sm_woke[1][Len(sm_woke[1])]

\* C21: a ConcatStream listens to and references exactly the downstream stream
\* it holds and no other; every downstream stream it made and no longer holds
\* was released by it exactly once and its listener closed; whatever it fires
\* is the value of the stream it holds (never of a discarded one) and becomes
\* its own value; under a falsy upstream item it holds no stream and its value
\* is None, and the step that takes it there from a held stream fires None.
C21_State ==
    /\ \A d \in Downstreams : ds_listened[d] <=> (d = cc_out)
    /\ \A d \in Downstreams :
          IF d = cc_out
          THEN ds_rc[d] = 1 /\ ds_released[d] = 0 /\ ds_finalized[d] = 0
          ELSE /\ ds_rc[d] = 0
               /\ ds_released[d] = (IF d <= cc_made THEN 1 ELSE 0)
               /\ ds_finalized[d] = ds_released[d]
    /\ \A i \in 1..Len(cc_fired) :
          /\ cc_fired[i][1] = cc_out
          /\ cc_fired[i][2] = cc_value
          /\ cc_out # 0 => cc_fired[i][2] = ds_value[cc_out]
    /\ (cc_alive /\ ~Truthy(cc_item)) =>
          cc_out = 0 /\ cc_value = None /\ cc_fired \in {<<>>, <<<<0, None>>>>}
    /\ (cc_alive /\ Truthy(cc_item)) => cc_out # 0

C21_Step ==
    (cc_out # 0 /\ cc_alive' /\ ~Truthy(cc_item')) => cc_fired' = <<<<0, None>>>>

C21_ConcatHoldsOneDownstream == []C21_State /\ [][C21_Step]_vars

\* C21 witness: the second downstream stream is held, the first was released,
\* and the discarded first stream has just produced a value that was not
\* republished.
C21_Witness ==
    /\ cc_alive
    /\ cc_out = 2
    /\ ds_released[1] = 1
    /\ cc_fired = <<>>
    /\ ds_value[1] \notin {cc_value, None, <<2>>, <<3>>}

\* C22: once about_to_delete of a DebounceStream or SampleStream has returned,
\* no call of value_stream.fire begins, wherever the task was when
\* about_to_delete ran (sleeping, woken but not resumed, inside its own fire
\* call, done, or absent); the task ends without sleeping again.
C22_State ==
    /\ ~ft_late
    /\ ~ft_alive => (~ft_ref /\ ft_coro # "sleeping")

C22_Step == ~ft_alive => ft_fires' = ft_fires

C22_NoFireAfterFinalize == []C22_State /\ [][C22_Step]_vars

\* C22 witness: about_to_delete ran when the sleep of a sample loop with a
\* dirty sample was over and the resumption was scheduled; the loop has since
\* been resumed and has ended.
C22_Witness ==
    /\ ft_kind = "sample"
    /\ ft_point = "woken"
    /\ ft_dirty
    /\ ft_coro = "none"

\* C23: a ValueChangeStream fires only while active.  A BEGIN is fired by
\* begin and carries the wrapped stream's value; a change of the wrapped stream
\* while active fires a CHANGE; end while active fires an END and leaves the
\* stream inactive; a change or an end while inactive fires nothing.  The tags
\* fired in an activity, from a begin() made while inactive and with no further
\* begin() before its end(), are BEGIN, then CHANGEs, then END at its end.
C23_State ==
    /\ \A i \in 1..Len(vc_fired) :
          /\ vc_fired[i] = vc_value
          /\ vc_fired[i][1] = BEGIN => (vc_active /\ vc_fired[i][2] = vc_wrapped)
          /\ vc_fired[i][1] = CHANGE => vc_active
          /\ vc_fired[i][1] = END => ~vc_active
    /\ (~vc_rebegin /\ vc_log # <<>>) =>
          /\ vc_log[1] = BEGIN
          /\ \A i \in 2..Len(vc_log) :
                vc_log[i] = CHANGE \/ (vc_log[i] = END /\ i = Len(vc_log))
          /\ vc_active <=> vc_log[Len(vc_log)] # END
    /\ vc_log = <<>> => ~vc_active

C23_Step ==
    /\ ~vc_active => (vc_fired' = <<>> \/ vc_fired'[1][1] = BEGIN)
    /\ (vc_active /\ vc_wrapped' # vc_wrapped) => vc_fired' = <<<<CHANGE, vc_wrapped'>>>>
    /\ (vc_active /\ ~vc_active') => vc_fired' = <<<<END, vc_wrapped>>>>

C24_FnOnceFinishedOnce ==
    \A t \in PoolTasks :
        /\ fn_runs[t] <= 1
        /\ finished_calls[t] <= 1
        /\ ~task_fn[t] => finished_calls[t] = 1
        /\ (fn_runs[t] = 0 /\ ~task_fn[t]) => \A w \in Workers : ~(wtask[w] = t /\ wpc[w] = "fn")

\* C25: a cancel call made by a thread while another thread is inside the
\* function of the task does not get past the lock, and so does not return,
\* before that run is over: the function has ended, finished_fn has been
\* called and has returned, and the running thread has released the lock.
C25_CancelWaitsForRun ==
    \A w \in Workers :
        (cancel_during[w] # 0 /\ wpc[w] # "cancel") =>
            /\ wpc[w] = "idle"
            /\ fn_exit[cancel_during[w]] # "none"
            /\ finished_calls[cancel_during[w]] >= 1
            /\ ~task_fn[cancel_during[w]]
            /\ \A u \in Workers \ {w} :
                  wtask[u] = cancel_during[w] => wpc[u] \in {"execute", "cancel"}

\* C25 witness: a cancel call that found the function running has returned.
C25_Witness ==
    \E w \in Workers :
        /\ cancel_during[w] # 0
        /\ wpc[w] = "idle"
        /\ fn_runs[cancel_during[w]] = 1

\* C26: when close has returned: every task that close found not started was
\* cancelled (its function never ran, its finished_fn was called once); every
\* task whose function was running when close began has run to completion and
\* its finished_fn was called once; every worker has exited; the task list is
\* empty; no task function is running; and from then on no function starts
\* and queue_fn queues nothing.
C26_State ==
    /\ \A t \in pl_cancelled : pt_runs[t] = 0 /\ pt_fin[t] = 1 /\ ~pt_fn[t]
    /\ cl_pc = "returned" =>
          /\ pl_tasks = <<>>
          /\ pl_queue = <<>>
          /\ \A w \in PoolThreads : th_pc[w] = "exited"
          /\ \A t \in 1..pl_made :
                /\ pt_fin[t] = 1
                /\ pt_lock[t] = 0
                /\ pt_runs[t] = (IF t \in pl_cancelled THEN 0 ELSE 1)
                /\ pt_runs[t] = 1 => pt_exit[t] # "none"
          /\ pl_started \cap pl_cancelled = {}

C26_Step ==
    cl_pc = "returned" =>
        /\ pt_runs' = pt_runs
        /\ pl_tasks' = pl_tasks
        /\ pl_queue' = pl_queue
        /\ pl_made' = pl_made

C26_CloseCancelsAndDrains == []C26_State /\ [][C26_Step]_vars

\* C26 witness: close has returned after it found one task running, which ran
\* to completion, and one not started, which it cancelled; a queue_fn call
\* made afterwards queued nothing.
C26_Witness ==
    /\ cl_pc = "returned"
    /\ pl_started # {}
    /\ pl_cancelled # {}
    /\ pl_late > 0

\* C27: every invocation of the target starts at least the minimum interval
\* after the previous one ended; and after the last trigger call, however
\* many came before it, at most two invocations start: the one the worker was
\* already heading for and one more.
C27_State ==
    /\ td_gap_ok
    /\ td_since <= 2

C27_Step ==
    td_starts' # td_starts => td_now - td_last >= MinimumInterval

C27_IntervalKeptTriggersCollapse == []C27_State /\ [][C27_Step]_vars

\* C27 witness: the third invocation is running, the second started exactly
\* the minimum interval after the first ended, and two invocations have
\* started since the last trigger call.
C27_Witness ==
    /\ td_starts = 3
    /\ td_pc = "fn"
    /\ td_since = 2
    /\ td_now = 2 * MinimumInterval

\* C28: when trigger(wait=True) has returned, an invocation of the target that
\* started after the trigger call was made has ended.
C28_WaitReturnsAfterOwnInvocation ==
    tw_pc = "returned" => tw_done > tw_mark

\* C29: once close has returned the worker thread has exited and no
\* invocation is running; after close was called no invocation started,
\* except one that the worker had already committed to, its last test of
\* __thread_break passed; and after close has returned none ever starts,
\* whatever triggers arrive.
C29_State ==
    /\ tc_pc = "closed" => (td_pc = "exited" /\ td_done = td_starts)
    /\ tc_pc # "open" => td_starts <= tc_mark + (IF tc_at = "call" THEN 1 ELSE 0)

C29_Step ==
    tc_pc = "closed" => (td_starts' = td_starts /\ td_pc' = "exited")

C29_CloseJoinsWorker == []C29_State /\ [][C29_Step]_vars

\* C29 witness: close was called while an invocation was running and has
\* returned after it ended, with the event set again by a later trigger.
C29_Witness ==
    /\ tc_pc = "closed"
    /\ tc_at = "fn"
    /\ td_done = tc_mark
    /\ td_event
    /\ td_since = 0

\* C30: the subscriber of a subscription that was closed, or that its caller
\* has dropped, is not called again; and a notification that has ended has
\* called the subscriber of every other subscription, those open and held
\* from its start to its end.
C30_ClosedOrDroppedGetsNothingOthersAll ==
    /\ ps_late = {}
    /\ ps_pc = "idle" => ps_open \subseteq ps_got

\* ----------------------------------------------------------------------
\* C31: a publisher derived by select(f) delivers f(v) to each of its
\* subscribers for every value v published upstream, each select publisher
\* applying its own f, and a subscriber that joins after a value was
\* published is delivered the last transformed value as it subscribes,
\* whatever that value is.
C31_Step ==
    \A s \in SelectPublishers :
        /\ pp_pubs' = pp_pubs + 1 =>
              \A n \in DOMAIN pp_log[s] :
                  pp_log'[s][n] = Append(pp_log[s][n], SelectFn(s, pp_value'))
        /\ (Len(pp_log'[s]) = Len(pp_log[s]) + 1 /\ pp_pubs > 0) =>
              pp_log'[s][Len(pp_log'[s])] = <<SelectFn(s, pp_value)>>

C31_SelectDeliversAndReplaysLast == [][C31_Step]_vars

\* ----------------------------------------------------------------------
\* C32: a publisher derived by cache() sends one notification for each run
\* of consecutive equal values it receives from upstream: 5 then 5 gives
\* one, a following 6 a second.
C32_OneNotificationPerRun == pp_knotes = pp_runs

\* ----------------------------------------------------------------------
\* C33: read-modify-write sequences that threads perform on a
\* ThreadSafeDict inside `with d.locked()` are atomic: no dict operation
\* of another thread runs inside the block, the holder's own calls of the
\* dict's methods go through, and no increment is lost, so that T threads
\* with n increments each leave the key at T * n.
RECURSIVE C33_Sum(_, _)
C33_Sum(f, S) ==
    IF S = {} THEN 0
    ELSE LET t == CHOOSE x \in S : TRUE IN f[t] + C33_Sum(f, S \ {t})

C33_Written == Cardinality({t \in DictThreads : sd_pc[t] = "wrote"})

C33_LockedIncrementsAtomic ==
    /\ ~sd_inside
    /\ sd_data = C33_Sum(sd_done, DictThreads) + C33_Written
    /\ (\A t \in DictThreads : sd_done[t] = MaxIncrements) =>
           sd_data = MaxDictThreads * MaxIncrements

\* Every thread has done all its increments, one of them having waited for
\* the lock, and the other thread has read the key.
C33_Witness ==
    /\ \A t \in DictThreads : sd_done[t] = MaxIncrements /\ sd_pc[t] = "idle"
    /\ sd_contended
    /\ sd_reads > 0
    /\ sd_data = MaxDictThreads * MaxIncrements

\* ----------------------------------------------------------------------
\* C34: a SingleItemDispatcher dispatch task, however it ends (after a
\* normal run, after observing cancellation, after the work function
\* raised), ends with the pending flag clear and the in-flight handle reset
\* to None; the handle is set exactly while a submitted task has not ended.
C34_State == (dispatch_future # 0) <=> (TasksInFlight # {})

C34_Step ==
    \A t \in Tasks :
        (tpc[t] # "ended" /\ tpc'[t] = "ended") =>
            (~is_dispatch_pending' /\ dispatch_future' = 0)

C34_TaskEndsIdle == []C34_State /\ [][C34_Step]_vars

\* ----------------------------------------------------------------------
\* C35: in the finalize of every stream operator, every listener the node
\* registered is closed before any of its stream references is released:
\* no remove_ref on a source precedes the close of a listener the node
\* still holds, for a CombineLatestStream over several sources and for a
\* ConcatStream with a downstream stream as for the others.
C35_State == ~ad_early

C35_Step == (ad_held' # ad_held /\ ad_pc > 0) => ad_open = {}

C35_ListenersClosedBeforeRelease == []C35_State /\ [][C35_Step]_vars

\* ----------------------------------------------------------------------
\* C36: every value the upstream delivers to a live DebounceStream is
\* eventually followed by an emission carrying the most recently stored
\* value; an update that arrives after the timer has fired its emission but
\* before the timer task is marked inactive is not left stored with no
\* emission scheduled.
C36_LastOf(kind) ==
    LET at == {i \in 1..Len(db_log) : db_log[i][1] = kind}
    IN  IF at = {} THEN 0 ELSE CHOOSE i \in at : \A j \in at : j <= i

C36_Unemitted == C36_LastOf("update") > C36_LastOf("emit")

C36_EveryUpdateEmitted ==
    C36_Unemitted ~>
        (/\ C36_LastOf("emit") > C36_LastOf("update")
         /\ db_log[C36_LastOf("emit")][3] = db_holder)

\* ----------------------------------------------------------------------
\* C37: every trigger() call made while the worker is started and not
\* closed is eventually followed by an invocation of the target that starts
\* after the call, wherever the worker is when the call arrives: idle,
\* waiting out the minimum interval, or running the target.  (Unless close
\* is called first, or the bounds of the model end the run: a timed wait
\* that outlasts the clock, the last invocation counted.)
C37_ModelEnds ==
    \/ td_pc = "iwait" /\ td_deadline > MaxTime
    \/ td_pc = "call" /\ td_starts = MaxStarts

C37_EveryTriggerInvokes == td_asked ~> (~td_asked \/ td_break \/ C37_ModelEnds)

\* A trigger call that arrived while the target was running has been
\* followed by a further invocation.
C37_Witness ==
    /\ td_starts >= 2
    /\ td_since >= 1
    /\ ~td_asked
    /\ ~td_break

\* ----------------------------------------------------------------------
\* C38: a trigger(wait=True) call eventually returns in every execution in
\* which the worker has been started, also when the target raises during
\* the awaited invocation and when close() is called while the caller is
\* waiting.
C38_WaitingTriggerReturns ==
    (tw_pc = "waiting" /\ ~td_break) ~> (tw_pc = "returned" \/ C37_ModelEnds)

\* ----------------------------------------------------------------------
\* C39: a function passed to SingleItemDispatcher.dispatch while a task
\* submitted by an earlier dispatch is in flight is never invoked: the
\* re-run the pending flag causes executes the function of the call that
\* submitted the task, and a function is invoked only if its dispatch call
\* found the dispatcher idle.
C39_State == executed_fns \subseteq idle_calls

C39_Step ==
    \A t \in Tasks :
        (tpc[t] = "ready" /\ tpc'[t] = "run") =>
            /\ tfn[t] \in idle_calls
            /\ executed_fns' = executed_fns \cup {tfn[t]}

C39_OnlyIdleCallsFunctionRuns == []C39_State /\ [][C39_Step]_vars

\* A task is in its second run, a later dispatch call having arrived during
\* the first, and only the function of the submitting call has been invoked.
C39_Witness ==
    \E t \in Tasks :
        /\ tpc[t] = "run"
        /\ pRuns = 2
        /\ pDuring >= 1
        /\ dispatches > tfn[t]
        /\ executed_fns = {tfn[t]}

\* ----------------------------------------------------------------------
\* C40: when a subscriber joins a select- or cache-derived publisher whose
\* last value is truthy, the replay goes to every subscriber of that
\* publisher: each one already subscribed receives the last value once more.
C40_Held(p) == IF p = "k" THEN pp_cached ELSE pp_last[p]

C40_Step ==
    \A p \in DerivedPublishers :
        (Len(pp_log'[p]) = Len(pp_log[p]) + 1 /\ Truthy(C40_Held(p))) =>
            /\ \A n \in DOMAIN pp_log[p] :
                   pp_log'[p][n] = Append(pp_log[p][n], C40_Held(p))
            /\ pp_log'[p][Len(pp_log'[p])] = <<C40_Held(p)>>

=============================================================================
